---- MODULE Spec2Model ----
(***************************************************************************)
(* upClock: the activity inference engine (core/activity_engine.py), the   *)
(* signal buffer (core/signal_buffer.py) and the reminder policy of the    *)
(* orchestration loop (service.py).                                        *)
(*                                                                         *)
(* Time is counted in whole seconds.  The code reports seated_minutes and  *)
(* break_minutes as seconds / 60; the model keeps the seconds and compares *)
(* them with the configured minutes times 60.  Confidences and posture     *)
(* scores are percentages (0.6 is 60), the score is in 1/10000.            *)
(***************************************************************************)
EXTENDS Integers, Sequences, FiniteSets, TLC

VARIABLES
    now,                        \* the clock read by _now(), utcnow() and time.time()
    records,                    \* SignalBuffer._records
    config,                     \* ActivityEngine._config
    activity_window,            \* ActivityEngine._activity_window, seconds
    baseline_activity,          \* ActivityEngine._baseline_activity
    seated_started_at,          \* ActivityEngine._seated_started_at
    visual_probe_requested_at,  \* ActivityEngine._visual_probe_requested_at
    visual_probe_triggered_at,  \* ActivityEngine._visual_probe_triggered_at
    snap,                       \* the ActivitySnapshot returned by the latest compute_snapshot
    prev_snap,                  \* the one returned by the call before it, if only time passed in between
    fresh,                      \* nothing has happened since the latest compute_snapshot
    repeat,                     \* the latest compute_snapshot directly followed another one
    last_issue_at,              \* the instant of the latest probe request
    issue_gap,                  \* set by a compute_snapshot that issues a request: seconds since the request before
    marked,                     \* mark_visual_probe_fired ran since the outstanding request was issued
    running,                    \* run_backend is inside its while loop
    pc,                         \* "idle", "probing" (the tick is suspended in await vision_adapter.probe) or "probe_raised"
    held,                       \* the locals of the suspended tick (flow, snooze and quiet status as read)
    vision_adapter,             \* run_backend's vision_adapter is not None
    system_sleeping,            \* SharedState.system_sleeping
    was_sleeping,               \* run_backend's was_sleeping
    flow_mode_until,            \* SharedState.flow_mode_until, 0 when off
    snooze_until,               \* SharedState.snooze_until, 0 when off
    settings_update,            \* SharedState._settings_update
    manual_reset_requested,     \* SharedState._manual_reset_requested
    quiet_slots,                \* run_backend's quiet_slots
    cooldown_seconds,           \* run_backend's cooldown_seconds
    last_notification_at,       \* run_backend's last_notification_at
    prev_state,                 \* run_backend's prev_state
    tick,                       \* what the latest tick read and published
    user_actions,               \* the number of GUI requests so far
    error,                      \* the exception the latest call raised, None if it returned
    appended,                   \* every record appended to the buffer so far, in append order
    lock,                       \* SignalBuffer._lock: the thread that holds it, None when free
    threads,                    \* per thread: its position and the object it works on
    returned,                   \* the list the latest snapshot() returned to the engine thread
    controller,                 \* the VisionController: its fields, the tasks it created, its caller
    daily,                      \* run_backend's calendar date and daily_date, daily_break_count
    requests,                   \* the loop's position at the top of a tick, and what was queued and applied
    monitor,                    \* the MacOSInputMonitor: its counters and lock, its two threads, its results
    shared                      \* SharedState: its notification slot and lock, the loop and the GUI inside set and pop_notification

engineVars == <<now, records, config, activity_window, baseline_activity,
                seated_started_at, visual_probe_requested_at,
                visual_probe_triggered_at, snap, prev_snap, fresh, repeat,
                last_issue_at, issue_gap, marked>>

loopVars == <<running, pc, held, vision_adapter, system_sleeping, was_sleeping,
              flow_mode_until, snooze_until, settings_update, manual_reset_requested,
              quiet_slots, cooldown_seconds, last_notification_at, prev_state,
              tick, user_actions>>

\* what an observer of the engine's calls remembers
engineObs == <<prev_snap, fresh, repeat, last_issue_at, issue_gap, marked>>

\* the outcome of calls made from outside the loop
extVars == <<error, appended, lock, threads, returned, controller, daily, requests, monitor, shared>>

\* what a tick of the loop leaves alone outside the engine and the loop
tickFrame == <<error, appended, lock, threads, returned, controller, requests, monitor, shared>>

vars == <<engineVars, loopVars, extVars>>

----------------------------------------------------------------------------
(* Optional values: None is the empty set, a value t is {t}.               *)

None == {}

Some(t) == {t}

Val(o) == CHOOSE x \in o : TRUE

Max(a, b) == IF a >= b THEN a ELSE b

Min(a, b) == IF a <= b THEN a ELSE b

----------------------------------------------------------------------------
(* Bounds of the model.                                                    *)

\* capacity of the deque in the model (the code's default is 600)
MaxLen == 2

\* the instants the clock may show, in seconds
Instants == {0, 2, 92, 122, 180}

SecondsPerMinute == 60

visual_probe_cooldown == 120

visual_probe_window == 90

\* presence.confidence > 0.05, in percent
MinVisionConfidence == 5

\* modifier used when posture_score is not positive: 0.5, in percent
FallbackModifier == 50

ScoreScale == 10000

----------------------------------------------------------------------------
(* Configurations and records.                                             *)

AppConfig(sb, br, ps) ==
    [short_break_minutes |-> sb, break_reset_minutes |-> br,
     prolonged_seated_minutes |-> ps, vision_presence_threshold |-> 60,
     notifications_enabled |-> TRUE, notification_cooldown_minutes |-> 30,
     quiet_hours |-> <<>>]

\* AppConfig's defaults
DefaultConfig == AppConfig(3, 3, 45)

\* tests/test_activity_engine.py, _config()
TestConfig == AppConfig(1, 1, 5)

\* The engines the runs start from: a configuration and a seated anchor.
\* A streak may have begun before the run (the tests back-date
\* _seated_started_at by 10 minutes); 2570 seconds is 95.2% of 45 minutes.
Scenarios ==
    {<<TestConfig, None>>, <<TestConfig, Some(-600)>>,
     <<DefaultConfig, None>>, <<DefaultConfig, Some(-2570)>>}

Keys == {"keyboard_mouse_activity", "total_events", "window_weight",
         "presence_confidence", "posture_score", "posture_state", "presence_state"}

SignalRecord(ts, keys, kma, tot, conf, pscore, pstate, present) ==
    [timestamp |-> ts, keys |-> keys, keyboard_mouse_activity |-> kma,
     total_events |-> tot, presence_confidence |-> conf, posture_score |-> pscore,
     posture_state |-> pstate, presence_state |-> present]

\* MacOSInputMonitor._drain_metrics: total_events = keyboard_mouse_activity
InputRecord(ts, n) ==
    SignalRecord(ts, {"keyboard_mouse_activity", "total_events"}, n, n, 0, 0, "unknown", 0)

\* MacOSWindowMonitor: no activity and no presence key
WindowRecord(ts) ==
    SignalRecord(ts, {"window_weight"}, 0, 0, 0, 0, "unknown", 0)

\* VisionAdapter._publish
VisionRecord(ts, conf, pscore, pstate, present) ==
    SignalRecord(ts, {"presence_confidence", "posture_score", "posture_state", "presence_state"},
                 0, 0, conf, pscore, pstate, present)

\* the records the producers may publish at instant ts
Published(ts) ==
    {InputRecord(ts, 10), WindowRecord(ts),
     VisionRecord(ts, 20, 0, "unknown", 0),
     VisionRecord(ts, 80, 100, "upright", 100)}

Has(r, k) == k \in r.keys

----------------------------------------------------------------------------
(* SignalBuffer                                                            *)

\* mutant: a full deque refuses the new record
BufferAppend_KeepOldest(buf, r) ==
    IF Len(buf) >= MaxLen THEN buf ELSE Append(buf, r)

\* deque(maxlen).append: the oldest record is dropped when the deque is full
BufferAppend(buf, r) ==
    IF Len(buf) >= MaxLen THEN Append(Tail(buf), r) ELSE Append(buf, r)

----------------------------------------------------------------------------
(* ActivityEngine                                                          *)

\* __init__: the trailing window, in seconds
ActivityWindow(cfg) == Max(1, Min(cfg.short_break_minutes, 5)) * SecondsPerMinute

\* __init__: max(window seconds / 6, 20)
BaselineActivity(cfg) == Max(ActivityWindow(cfg) \div 6, 20)

\* compute_snapshot, lines 74-80: the activity volume of one record
Volume(r) ==
    IF Has(r, "keyboard_mouse_activity") THEN r.keyboard_mouse_activity
    ELSE IF Has(r, "total_events") THEN r.total_events
    ELSE 0

\* compute_snapshot, line 70
RecentRecords(recs, t, window) ==
    SelectSeq(recs, LAMBDA r : t - r.timestamp <= window)

RECURSIVE ActivitySum(_)
ActivitySum(recs) ==
    IF recs = <<>> THEN 0
    ELSE Max(0, Volume(Head(recs))) + ActivitySum(Tail(recs))

HasRecentKeyboardMouse(recs, t, window) ==
    \E i \in 1..Len(recs) : t - recs[i].timestamp <= window /\ Volume(recs[i]) > 0

\* _last_activity_time, one record: does the scan return at this record
QualifiesAsActivity(r, cfg) ==
    LET total == IF Has(r, "keyboard_mouse_activity") /\ r.keyboard_mouse_activity # 0
                 THEN r.keyboard_mouse_activity
                 ELSE IF Has(r, "total_events") THEN r.total_events ELSE 0
    IN  \/ total > 0
        \/ /\ Has(r, "presence_confidence")
           /\ r.presence_confidence >= cfg.vision_presence_threshold
           /\ (Has(r, "presence_state") => r.presence_state >= 50)

\* _last_activity_time: newest record in buffer order that qualifies
RECURSIVE LastActivityFrom(_, _, _)
LastActivityFrom(recs, i, cfg) ==
    IF i = 0 THEN None
    ELSE IF QualifiesAsActivity(recs[i], cfg) THEN Some(recs[i].timestamp)
    ELSE LastActivityFrom(recs, i - 1, cfg)

\* mutant: a record with positive volume is preferred to every presence record
LastActivityTime_KeyboardFirst(recs, cfg) ==
    LET typed == {i \in 1..Len(recs) : Volume(recs[i]) > 0}
    IN  IF typed = {} THEN LastActivityFrom(recs, Len(recs), cfg)
        ELSE Some(recs[CHOOSE i \in typed : \A j \in typed : j <= i].timestamp)

LastActivityTime(recs, cfg) == LastActivityFrom(recs, Len(recs), cfg)

\* _latest_presence: newest record in buffer order that carries presence_confidence
RECURSIVE LatestPresenceFrom(_, _)
LatestPresenceFrom(recs, i) ==
    IF i = 0 THEN None
    ELSE IF Has(recs[i], "presence_confidence")
         THEN Some([timestamp |-> recs[i].timestamp,
                    confidence |-> recs[i].presence_confidence,
                    posture_score |-> IF Has(recs[i], "posture_score")
                                      THEN recs[i].posture_score ELSE 0,
                    posture_state |-> IF Has(recs[i], "posture_state")
                                      THEN recs[i].posture_state ELSE "unknown"])
    ELSE LatestPresenceFrom(recs, i - 1)

LatestPresence(recs) == LatestPresenceFrom(recs, Len(recs))

\* mutant: the call that sets the anchor reports 0 seated seconds
UpdateSeatedTimer_ZeroOnAnchor(anchor, t, last_activity_at, break_seconds, cfg) ==
    IF break_seconds >= cfg.break_reset_minutes * SecondsPerMinute
    THEN [anchor |-> None, seated |-> 0]
    ELSE IF anchor = None THEN [anchor |-> Some(last_activity_at), seated |-> 0]
    ELSE [anchor |-> anchor, seated |-> Max(0, t - Val(anchor))]

\* mutant: every call anchors the streak again at the last activity
UpdateSeatedTimer_Reanchor(anchor, t, last_activity_at, break_seconds, cfg) ==
    IF break_seconds >= cfg.break_reset_minutes * SecondsPerMinute
    THEN [anchor |-> None, seated |-> 0]
    ELSE [anchor |-> Some(last_activity_at), seated |-> Max(0, t - last_activity_at)]

\* mutant: a new streak is anchored at the call, not at the last activity
UpdateSeatedTimer_AnchorNow(anchor, t, last_activity_at, break_seconds, cfg) ==
    IF break_seconds >= cfg.break_reset_minutes * SecondsPerMinute
    THEN [anchor |-> None, seated |-> 0]
    ELSE LET a == IF anchor = None THEN t ELSE Val(anchor)
         IN  [anchor |-> Some(a), seated |-> Max(0, t - a)]

\* mutant: a break does not end the seated streak
UpdateSeatedTimer_NoReset(anchor, t, last_activity_at, break_seconds, cfg) ==
    LET a == IF anchor = None THEN last_activity_at ELSE Val(anchor)
    IN  [anchor |-> Some(a), seated |-> Max(0, t - a)]

\* _update_seated_timer: the new anchor and the seated seconds
UpdateSeatedTimer(anchor, t, last_activity_at, break_seconds, cfg) ==
    IF break_seconds >= cfg.break_reset_minutes * SecondsPerMinute
    THEN [anchor |-> None, seated |-> 0]
    ELSE LET a == IF anchor = None THEN last_activity_at ELSE Val(anchor)
         IN  [anchor |-> Some(a), seated |-> Max(0, t - a)]

\* mutant: the break threshold compared with > instead of >=
ResolveState_StrictBreak(seated_seconds, break_seconds, cfg) ==
    IF break_seconds > cfg.break_reset_minutes * SecondsPerMinute THEN "SHORT_BREAK"
    ELSE IF seated_seconds >= cfg.prolonged_seated_minutes * SecondsPerMinute
         THEN "PROLONGED_SEATED"
    ELSE "ACTIVE"

\* _resolve_state
ResolveState(seated_seconds, break_seconds, cfg) ==
    IF break_seconds >= cfg.break_reset_minutes * SecondsPerMinute THEN "SHORT_BREAK"
    ELSE IF seated_seconds >= cfg.prolonged_seated_minutes * SecondsPerMinute
         THEN "PROLONGED_SEATED"
    ELSE "ACTIVE"

\* mutant: a request is issued however short the seated time is
UpdateVisualProbeState_AnySeatedTime(req, trig, t, seated_seconds, break_seconds, state, presence_confidence, posture_state, cfg) ==
    LET keep  == [req |-> req, trig |-> trig, issued |-> FALSE]
        clear == [req |-> None, trig |-> None, issued |-> FALSE]
    IN  IF state = "PROLONGED_SEATED" THEN keep
        ELSE IF break_seconds >= cfg.break_reset_minutes * SecondsPerMinute THEN clear
        ELSE IF presence_confidence >= cfg.vision_presence_threshold
                /\ posture_state # "untracked" THEN clear
        ELSE IF req # None /\ t - Val(req) <= visual_probe_window THEN keep
        ELSE IF req # None /\ t - Val(req) <= visual_probe_cooldown THEN keep
        ELSE [req |-> Some(t), trig |-> None, issued |-> TRUE]

\* _update_visual_probe_state: the two timestamps afterwards, and whether a
\* new request was issued (lines 260-261)
UpdateVisualProbeState(req, trig, t, seated_seconds, break_seconds, state, presence_confidence, posture_state, cfg) ==
    LET keep  == [req |-> req, trig |-> trig, issued |-> FALSE]
        clear == [req |-> None, trig |-> None, issued |-> FALSE]
        prolonged_seconds == cfg.prolonged_seated_minutes * SecondsPerMinute
    IN  IF state = "PROLONGED_SEATED" THEN keep
        ELSE IF break_seconds >= cfg.break_reset_minutes * SecondsPerMinute THEN clear
        ELSE IF seated_seconds * 100 < prolonged_seconds * 95 THEN clear
        ELSE IF presence_confidence >= cfg.vision_presence_threshold
                /\ posture_state # "untracked" THEN clear
        ELSE IF req # None /\ t - Val(req) <= visual_probe_window THEN keep
        ELSE IF req # None /\ t - Val(req) <= visual_probe_cooldown THEN keep
        ELSE [req |-> Some(t), trig |-> None, issued |-> TRUE]

\* mutant: the trigger timestamp is not consulted
ShouldRequestVisualProbe_IgnoreTrigger(req, trig, t) ==
    IF req = None THEN FALSE
    ELSE IF t - Val(req) > visual_probe_window THEN FALSE
    ELSE TRUE

\* _should_request_visual_probe
ShouldRequestVisualProbe(req, trig, t) ==
    IF req = None THEN FALSE
    ELSE IF trig # None /\ Val(trig) >= Val(req) THEN FALSE
    ELSE IF t - Val(req) > visual_probe_window THEN FALSE
    ELSE TRUE

\* round(x, 4) of the exact quotient num / den, ties to even
RoundHalfEven(num, den) ==
    LET q == num \div den
        r == num % den
    IN  IF 2 * r < den THEN q
        ELSE IF 2 * r > den THEN q + 1
        ELSE IF q % 2 = 0 THEN q ELSE q + 1

\* mutant: the seated ratio is not capped at 1
ComputeScore_NoCap(seated_seconds, norm_num, norm_den, posture_score, cfg) ==
    LET full == Max(cfg.prolonged_seated_minutes, 1) * SecondsPerMinute
        modifier == IF posture_score > 0 THEN posture_score ELSE FallbackModifier
    IN  RoundHalfEven((ScoreScale \div 100) * (full - seated_seconds) * norm_num * modifier,
                      full * norm_den)

\* _compute_score, with normalized_activity = norm_num / norm_den and the
\* posture score in percent; the result is in 1/10000
ComputeScore(seated_seconds, norm_num, norm_den, posture_score, cfg) ==
    LET full == Max(cfg.prolonged_seated_minutes, 1) * SecondsPerMinute
        part == Min(seated_seconds, full)
        modifier == IF posture_score > 0 THEN posture_score ELSE FallbackModifier
    IN  RoundHalfEven((ScoreScale \div 100) * (full - part) * norm_num * modifier,
                      full * norm_den)

NoSnapshot ==
    [state |-> "NONE", score |-> 0, seated_seconds |-> 0, break_seconds |-> 0,
     activity_sum |-> 0, pending |-> FALSE, empty |-> TRUE]

\* mutant: an empty buffer reported as activity without a break
EmptySnapshot_NoBreak(cfg) ==
    [state |-> "ACTIVE", score |-> 0, seated_seconds |-> 0, break_seconds |-> 0,
     activity_sum |-> 0, pending |-> FALSE, empty |-> TRUE]

\* compute_snapshot, lines 57-68: the snapshot returned for an empty buffer
EmptySnapshot(cfg) ==
    [state |-> "SHORT_BREAK", score |-> 0, seated_seconds |-> 0,
     break_seconds |-> cfg.break_reset_minutes * SecondsPerMinute,
     activity_sum |-> 0, pending |-> FALSE, empty |-> TRUE]

\* mutant: uncertain vision forces the break even when input is fresh
BreakSeconds_IgnoreInput(elapsed, vision_uncertain, has_recent, cfg) ==
    IF vision_uncertain
    THEN Max(Max(0, elapsed), cfg.break_reset_minutes * SecondsPerMinute)
    ELSE Max(0, elapsed)

\* compute_snapshot, lines 98-105: the break time, forced up to the reset
\* threshold when a trusted vision sample is below the presence threshold
\* and no record of the window has positive volume
BreakSeconds(elapsed, vision_uncertain, has_recent, cfg) ==
    IF vision_uncertain /\ ~has_recent
    THEN Max(Max(0, elapsed), cfg.break_reset_minutes * SecondsPerMinute)
    ELSE Max(0, elapsed)

\* compute_snapshot: the snapshot returned and the timers afterwards
Compute(recs, t, cfg, window, baseline, anchor, req, trig) ==
    IF recs = <<>>
    THEN [snap |-> EmptySnapshot(cfg),
          anchor |-> anchor, req |-> req, trig |-> trig, issued |-> FALSE]
    ELSE
    LET activity_sum == ActivitySum(RecentRecords(recs, t, window))
        has_recent == HasRecentKeyboardMouse(recs, t, window)
        norm_num == Min(activity_sum, baseline)
        found == LastActivityTime(recs, cfg)
        last_activity_at == IF found = None THEN recs[Len(recs)].timestamp ELSE Val(found)
        presence == LatestPresence(recs)
        trusted == /\ presence # None
                   /\ Val(presence).posture_state # "untracked"
                   /\ Val(presence).confidence > MinVisionConfidence
        break_seconds ==
            BreakSeconds(t - last_activity_at,
                         trusted /\ Val(presence).confidence < cfg.vision_presence_threshold,
                         has_recent, cfg)
        timer == UpdateSeatedTimer(anchor, t, last_activity_at, break_seconds, cfg)
        state == ResolveState(timer.seated, break_seconds, cfg)
        probe == UpdateVisualProbeState(
                     req, trig, t, timer.seated, break_seconds, state,
                     IF presence = None THEN 0 ELSE Val(presence).confidence,
                     IF presence = None THEN "unknown" ELSE Val(presence).posture_state,
                     cfg)
        posture_score == IF trusted THEN Val(presence).posture_score ELSE 100
        score == ComputeScore(timer.seated, norm_num, baseline, posture_score, cfg)
    IN  [snap |-> [state |-> state, score |-> score, seated_seconds |-> timer.seated,
                   break_seconds |-> break_seconds, activity_sum |-> activity_sum,
                   pending |-> ShouldRequestVisualProbe(probe.req, probe.trig, t),
                   empty |-> FALSE],
         anchor |-> timer.anchor, req |-> probe.req, trig |-> probe.trig,
         issued |-> probe.issued]

NoTick ==
    [state |-> "NONE", sleeping |-> FALSE, notified |-> FALSE, next_reminder |-> None,
     enabled |-> FALSE, flow |-> FALSE, snooze |-> FALSE, quiet |-> FALSE,
     last_before |-> None, cooldown |-> 0, computes |-> 0,
     accrued_prolonged |-> FALSE, longest_candidate |-> None]

NoHeld ==
    [flow_active |-> FALSE, flow_remaining |-> 0, snooze_active |-> FALSE,
     snooze_remaining |-> 0, quiet_active |-> FALSE, quiet_remaining |-> 0]

\* the orchestration loop is not part of the run
LoopIdle ==
    /\ running = FALSE
    /\ pc = "idle"
    /\ held = NoHeld
    /\ vision_adapter = FALSE
    /\ system_sleeping = FALSE
    /\ was_sleeping = FALSE
    /\ flow_mode_until = 0
    /\ snooze_until = 0
    /\ settings_update = None
    /\ manual_reset_requested = FALSE
    /\ quiet_slots = <<>>
    /\ cooldown_seconds = 0
    /\ last_notification_at = None
    /\ prev_state = "NONE"
    /\ tick = NoTick
    /\ user_actions = 0

\* the threads that use the buffer: two producers and the engine's thread
Producers == {"input", "vision"}

EngineThread == "engine"

IdleThread == [pc |-> "idle", item |-> None]

\* VisionController.__init__, lines 29-37: no probe yet, no task; tasks are
\* the probe tasks created so far, caller is the position of run_backend
VisionController(adapter) ==
    [adapter |-> adapter, last_probe_at |-> 0, task |-> None, tasks |-> <<>>,
     caller |-> "looping", call |-> None]

\* the kinds of event the tap is registered for, input_monitor.py lines 16-35
EventKinds == {"keyboard", "mouse", "scroll"}

\* a thread of the monitor outside its methods
Outside == [pc |-> "idle", kind |-> "none", keyboard |-> 0, mouse |-> 0, scroll |-> 0]

\* MacOSInputMonitor.__init__, lines 40-49: counters at 0, the lock free; tap is
\* the event-tap thread inside _handle_event, drain the publish loop inside
\* _drain_metrics; handled counts the events passed to _handle_event so far,
\* results keeps what _drain_metrics returned
MacOSInputMonitor ==
    [keyboard_events |-> 0, mouse_events |-> 0, scroll_events |-> 0, lock |-> None,
     tap |-> Outside, drain |-> Outside,
     handled |-> [k \in EventKinds |-> 0], results |-> <<>>]

\* run_backend, line 308: the loop is about to pop the queued settings; nothing
\* was queued, applied, asked for or reset yet
NoRequests ==
    [pc |-> "pop", pending_settings |-> None, queued |-> <<>>, popped |-> <<>>,
     applied |-> 0, asked |-> 0, batches |-> 0, resets |-> 0]

\* run_backend, lines 290-292: daily_date is today, nothing counted yet;
\* today is the calendar date as dt.date.today() reports it, in days
FirstDay == [today |-> 0, date |-> 0, break_count |-> 0]

\* SharedState(): no notification, the lock free, no thread inside a method;
\* published counts the notifications handed to set, results lists what
\* pop_notification returned, kept tells that a set without a notification
\* ran over the notification in the slot
SharedState ==
    [notification |-> None, lock |-> None,
     loop |-> [pc |-> "idle", message |-> None],
     gui |-> [pc |-> "idle", message |-> None],
     published |-> 0, results |-> <<>>, kept |-> FALSE]

\* no call has raised, nothing was appended, no thread is inside the buffer
ExtIdle ==
    /\ error = None
    /\ appended = <<>>
    /\ lock = None
    /\ threads = [t \in Producers \cup {EngineThread} |-> IdleThread]
    /\ returned = None
    /\ controller = VisionController(TRUE)
    /\ daily = FirstDay
    /\ requests = NoRequests
    /\ monitor = MacOSInputMonitor
    /\ shared = SharedState

----------------------------------------------------------------------------
(* The engine driven through its public interface.                         *)

Init ==
    /\ now = 0
    /\ records = <<>>
    /\ \E sc \in Scenarios : config = sc[1] /\ seated_started_at = sc[2]
    /\ activity_window = ActivityWindow(config)
    /\ baseline_activity = BaselineActivity(config)
    /\ visual_probe_requested_at = None
    /\ visual_probe_triggered_at = None
    /\ snap = NoSnapshot
    /\ prev_snap = NoSnapshot
    /\ fresh = FALSE
    /\ repeat = FALSE
    /\ last_issue_at = None
    /\ issue_gap = None
    /\ marked = FALSE
    /\ LoopIdle
    /\ ExtIdle

\* what the observer of the returned snapshots forgets when the engine or
\* the buffer is touched between two compute_snapshot calls
Forget ==
    /\ snap' = NoSnapshot
    /\ prev_snap' = NoSnapshot
    /\ fresh' = FALSE
    /\ repeat' = FALSE
    /\ issue_gap' = None

\* AdapterBase.publish: a producer appends a record stamped with the clock
Publish ==
    /\ \E r \in Published(now) : records' = BufferAppend(records, r)
    /\ Forget
    /\ UNCHANGED <<now, config, activity_window, baseline_activity, seated_started_at,
                   visual_probe_requested_at, visual_probe_triggered_at,
                   last_issue_at, marked>>
    /\ UNCHANGED <<loopVars, extVars>>

\* time passes
Advance ==
    /\ \E t \in Instants : t > now /\ now' = t
    /\ prev_snap' = NoSnapshot
    /\ fresh' = FALSE
    /\ repeat' = FALSE
    /\ issue_gap' = None
    /\ UNCHANGED <<records, config, activity_window, baseline_activity,
                   seated_started_at, visual_probe_requested_at,
                   visual_probe_triggered_at, snap, last_issue_at, marked>>
    /\ UNCHANGED <<loopVars, extVars>>

\* ActivityEngine.compute_snapshot
ComputeSnapshot ==
    LET c == Compute(records, now, config, activity_window, baseline_activity,
                     seated_started_at, visual_probe_requested_at,
                     visual_probe_triggered_at)
    IN  /\ snap' = c.snap
        /\ prev_snap' = snap
        /\ seated_started_at' = c.anchor
        /\ visual_probe_requested_at' = c.req
        /\ visual_probe_triggered_at' = c.trig
        /\ last_issue_at' = IF c.issued THEN Some(now) ELSE last_issue_at
        /\ issue_gap' = IF c.issued /\ last_issue_at # None
                        THEN Some(now - Val(last_issue_at)) ELSE None
        /\ marked' = IF c.req = None \/ c.issued THEN FALSE ELSE marked
        /\ fresh' = TRUE
        /\ repeat' = fresh
        /\ UNCHANGED <<now, records, config, activity_window, baseline_activity>>
        /\ UNCHANGED <<loopVars, extVars>>

\* ActivityEngine.mark_visual_probe_fired
MarkVisualProbeFired ==
    /\ IF visual_probe_requested_at = None
       THEN UNCHANGED <<visual_probe_triggered_at, marked>>
       ELSE /\ visual_probe_triggered_at' = Some(now)
            /\ marked' = TRUE
    /\ Forget
    /\ UNCHANGED <<now, records, config, activity_window, baseline_activity,
                   seated_started_at, visual_probe_requested_at, last_issue_at>>
    /\ UNCHANGED <<loopVars, extVars>>

\* ActivityEngine.reset_state
ResetState ==
    /\ seated_started_at' = None
    /\ visual_probe_requested_at' = None
    /\ visual_probe_triggered_at' = None
    /\ marked' = FALSE
    /\ last_issue_at' = None
    /\ Forget
    /\ UNCHANGED <<now, records, config, activity_window, baseline_activity>>
    /\ UNCHANGED <<loopVars, extVars>>

Next ==
    \/ Publish
    \/ Advance
    \/ ComputeSnapshot
    \/ MarkVisualProbeFired
    \/ ResetState

Spec == Init /\ [][Next]_vars

----------------------------------------------------------------------------
(* Properties of the engine, checked under Spec.                           *)

BreakReset == config.break_reset_minutes * SecondsPerMinute

Prolonged == config.prolonged_seated_minutes * SecondsPerMinute

\* should_trigger_visual_probe() at the current instant
ShouldTrigger ==
    ShouldRequestVisualProbe(visual_probe_requested_at, visual_probe_triggered_at, now)

\* some record of the trailing window has positive keyboard/mouse volume
FreshInput ==
    \E i \in 1..Len(records) :
        /\ now - records[i].timestamp <= activity_window
        /\ Volume(records[i]) > 0

\* the newest presence sample is below the presence threshold
LowConfidenceVision ==
    /\ LatestPresence(records) # None
    /\ Val(LatestPresence(records)).confidence < config.vision_presence_threshold

\* C1: break dominates prolonged. Whenever the break time of a returned
\* snapshot is at least break_reset_minutes the state is SHORT_BREAK, and
\* PROLONGED_SEATED is returned only with the break time below the reset
\* threshold and the seated time at least prolonged_seated_minutes.
BreakDominatesProlonged ==
    fresh =>
        /\ (snap.break_seconds >= BreakReset => snap.state = "SHORT_BREAK")
        /\ (snap.state = "PROLONGED_SEATED" =>
                /\ snap.break_seconds < BreakReset
                /\ snap.seated_seconds >= Prolonged)

\* C1 witness: a streak reported as PROLONGED_SEATED is reported as
\* SHORT_BREAK by the next call, once the break time reached the threshold.
BreakEndsProlongedStreak ==
    /\ fresh
    /\ prev_snap.state = "PROLONGED_SEATED"
    /\ snap.state = "SHORT_BREAK"
    /\ ~snap.empty
    /\ snap.break_seconds >= BreakReset

\* C2: for an empty buffer compute_snapshot returns SHORT_BREAK, score 0,
\* seated time 0 and a break time of break_reset_minutes, whatever the
\* timers hold.
EmptyBufferIsBreak ==
    (fresh /\ records = <<>>) =>
        /\ snap.state = "SHORT_BREAK"
        /\ snap.score = 0
        /\ snap.seated_seconds = 0
        /\ snap.break_seconds = BreakReset

\* C2 witness: a snapshot of an empty buffer taken while the seated anchor is set.
EmptyBufferWithAnchor ==
    /\ fresh
    /\ records = <<>>
    /\ seated_started_at # None
    /\ snap.state = "SHORT_BREAK"

\* C3: a compute_snapshot call that directly follows another one, with the
\* same buffer and the same clock, returns the same state and score.
IdempotentSnapshot ==
    repeat => (snap.state = prev_snap.state /\ snap.score = prev_snap.score)

\* C3 witness: a repeated call on a streak that is under way, with a positive score.
RepeatedActiveSnapshot ==
    /\ repeat
    /\ snap.state = "ACTIVE"
    /\ snap.seated_seconds > 0
    /\ snap.score > 0

\* C4: with one activity record in the buffer, from one compute_snapshot
\* call to the next (only time passing in between) the seated time does not
\* decrease while the break time is below the reset threshold; from the
\* threshold on it is 0 and the anchor is cleared.
MonotonicSeatedness ==
    (/\ fresh
     /\ prev_snap.state # "NONE"
     /\ Len(records) = 1
     /\ Volume(records[1]) > 0) =>
        IF snap.break_seconds < BreakReset
        THEN snap.seated_seconds >= prev_snap.seated_seconds
        ELSE snap.seated_seconds = 0 /\ seated_started_at = None

\* C4 witness: the streak of a single activity record grows and is then
\* ended by the break.
SingleRecordStreakEnds ==
    /\ fresh
    /\ Len(records) = 1
    /\ Volume(records[1]) > 0
    /\ prev_snap.state = "ACTIVE"
    /\ prev_snap.seated_seconds > 0
    /\ snap.break_seconds >= BreakReset
    /\ snap.seated_seconds = 0

\* C5: a snapshot whose seated time is at least prolonged_seated_minutes
\* has score 0 (and state PROLONGED_SEATED).
ScoreFloor ==
    (fresh /\ ~snap.empty /\ snap.seated_seconds >= Prolonged) =>
        (snap.score = 0 /\ snap.state = "PROLONGED_SEATED")

\* C5 witness: a prolonged streak with input in the window.
ProlongedWithActivity ==
    /\ fresh
    /\ snap.seated_seconds >= Prolonged
    /\ snap.activity_sum > 0
    /\ snap.state = "PROLONGED_SEATED"

\* C6: when a record of the trailing window has positive keyboard/mouse
\* volume, the break time is the time since the last-activity instant, also
\* under a low-confidence presence sample, and the state is ACTIVE when that
\* is below the reset threshold and the seated time below the prolonged one.
FreshInputOverridesVision ==
    (fresh /\ FreshInput) =>
        /\ snap.break_seconds = Max(0, now - Val(LastActivityTime(records, config)))
        /\ ((snap.break_seconds < BreakReset /\ snap.seated_seconds < Prolonged)
                => snap.state = "ACTIVE")

\* C6 witness: a low-confidence presence sample next to fresh input, reported ACTIVE.
ActiveUnderUncertainVision ==
    /\ fresh
    /\ FreshInput
    /\ LowConfidenceVision
    /\ snap.state = "ACTIVE"
    /\ snap.break_seconds < SecondsPerMinute

\* C9: should_trigger_visual_probe is true only while a request is
\* outstanding, not marked fired since it was issued, and at most 90
\* seconds old; after mark_visual_probe_fired it stays false until a new
\* request is issued.
ProbeFiringWindow ==
    /\ ShouldTrigger =>
            /\ visual_probe_requested_at # None
            /\ ~marked
            /\ now - Val(visual_probe_requested_at) <= visual_probe_window
    /\ marked => ~ShouldTrigger

\* C9 witness: a request marked fired while still inside its window.
MarkedInsideWindow ==
    /\ marked
    /\ visual_probe_requested_at # None
    /\ now > Val(visual_probe_requested_at)
    /\ now - Val(visual_probe_requested_at) <= visual_probe_window
    /\ ~ShouldTrigger

\* C10: once a probe request was issued at t, no request is issued at a
\* later instant before t + 120 seconds.
ProbeRequestCooldown ==
    (issue_gap # None /\ Val(issue_gap) > 0) => Val(issue_gap) >= visual_probe_cooldown

----------------------------------------------------------------------------
(* The orchestration loop, service.py.  A tick is one step, except that a  *)
(* tick whose snapshot asks for a visual probe is suspended in             *)
(* await vision_adapter.probe(...) and finished by ProbeReturns.  The      *)
(* clock shows 0 at local midnight.  Of the daily totals the break count  *)
(* is kept; the VisionController has a model of its own below.             *)

\* the number of GUI requests in a run
MaxUserActions == 2

LoopInstants == {0, 58, 61, 121}

\* vision_adapter.probe(duration=3.0, interval=0.5)
ProbeDuration == 3

SecondsPerDay == 86400

\* the minutes the user may enter for flow mode
FlowMinutes == {1}

\* the snooze menu offers 5, 15 and 30 minutes
SnoozeMinutes == {5}

\* run_backend's configuration: prolonged after 1 minute, cooldown 2 minutes
LoopConfig(enabled) ==
    [AppConfig(3, 3, 1) EXCEPT !.notifications_enabled = enabled,
                               !.notification_cooldown_minutes = 2]

\* UserSettings the settings dialog may queue; a time of day is <<hour, minute>>
SettingsChoices ==
    {[prolonged_seated_minutes |-> 1, notification_cooldown_minutes |-> 1,
      quiet_hours |-> <<>>],
     [prolonged_seated_minutes |-> 1, notification_cooldown_minutes |-> 2,
      quiet_hours |-> << << <<0, 2>>, <<0, 3>> >>, << <<25, 0>>, <<0, 1>> >> >>]}

\* MacOSInputMonitor._run publishes one record per polling interval, and only
\* when it counted events; the records of the other producers are left out
LoopPublished(ts) ==
    IF \E i \in 1..Len(records) : records[i].timestamp = ts
    THEN {}
    ELSE {InputRecord(ts, 10)}

\* _time_str_to_minutes, on the hour and minute already split at ":"
TimeStrToMinutes(hm) ==
    IF hm[1] >= 0 /\ hm[1] < 24 /\ hm[2] >= 0 /\ hm[2] < 60
    THEN Some(hm[1] * 60 + hm[2])
    ELSE None

\* _parse_quiet_slots: slots with an unreadable time are skipped
RECURSIVE ParseQuietSlots(_)
ParseQuietSlots(quiet_hours) ==
    IF quiet_hours = <<>> THEN <<>>
    ELSE LET slot == Head(quiet_hours)
             start == TimeStrToMinutes(slot[1])
             end == TimeStrToMinutes(slot[2])
             rest == ParseQuietSlots(Tail(quiet_hours))
         IN  IF start = None \/ end = None THEN rest
             ELSE <<(<<Val(start), Val(end)>>)>> \o rest

\* mutant: a window over midnight is treated like a window within the day
RECURSIVE QuietStatus_NoWrap(_, _)
QuietStatus_NoWrap(t, slots) ==
    IF slots = <<>> THEN [active |-> FALSE, remaining |-> 0]
    ELSE LET current == t % SecondsPerDay
             start == Head(slots)[1] * SecondsPerMinute
             end == Head(slots)[2] * SecondsPerMinute
         IN  IF start <= current /\ current < end
             THEN [active |-> TRUE, remaining |-> end - current]
             ELSE QuietStatus_NoWrap(t, Tail(slots))

\* _quiet_status: the first slot that covers the time of day; remaining in seconds
RECURSIVE QuietStatus(_, _)
QuietStatus(t, slots) ==
    IF slots = <<>> THEN [active |-> FALSE, remaining |-> 0]
    ELSE LET current == t % SecondsPerDay
             start == Head(slots)[1] * SecondsPerMinute
             end == Head(slots)[2] * SecondsPerMinute
         IN  IF start < end /\ start <= current /\ current < end
             THEN [active |-> TRUE, remaining |-> end - current]
             ELSE IF start > end /\ (current >= start \/ current < end)
             THEN [active |-> TRUE,
                   remaining |-> IF current >= start THEN end + SecondsPerDay - current
                                 ELSE end - current]
             ELSE QuietStatus(t, Tail(slots))

\* SharedState.get_flow_mode_state and get_snooze_state: whether the override
\* is active, the seconds left, and the stored deadline afterwards
TimedState(until, t) ==
    LET remaining == Max(0, until - t)
    IN  IF remaining <= 0
        THEN [active |-> FALSE, remaining |-> 0, until |-> 0]
        ELSE [active |-> TRUE, remaining |-> remaining, until |-> until]

\* run_backend, lines 314-320: config.model_copy(update=...)
ApplySettings(cfg, st) ==
    [cfg EXCEPT !.prolonged_seated_minutes = st.prolonged_seated_minutes,
                !.notification_cooldown_minutes = st.notification_cooldown_minutes,
                !.quiet_hours = st.quiet_hours]

\* mutant: the cooldown is not consulted
ReminderPolicy_NoCooldown(state, enabled, h, last_at, t, cooldown, cooldown_minutes) ==
    IF enabled /\ ~h.flow_active /\ ~h.snooze_active /\ ~h.quiet_active
    THEN IF state = "PROLONGED_SEATED"
         THEN [notify |-> TRUE, last_at |-> Some(t),
               next_reminder |-> Some(cooldown_minutes * SecondsPerMinute)]
         ELSE [notify |-> FALSE, last_at |-> None, next_reminder |-> None]
    ELSE [notify |-> FALSE, last_at |-> last_at, next_reminder |-> None]

\* run_backend, lines 447-477: whether the tick notifies, last_notification_at
\* afterwards and next_reminder_minutes (held in seconds: 60 times the minutes)
ReminderPolicy(state, enabled, h, last_at, t, cooldown, cooldown_minutes) ==
    IF enabled /\ ~h.flow_active /\ ~h.snooze_active /\ ~h.quiet_active
    THEN IF state = "PROLONGED_SEATED"
         THEN IF last_at = None \/ t - Val(last_at) >= cooldown
              THEN [notify |-> TRUE, last_at |-> Some(t),
                    next_reminder |-> Some(cooldown_minutes * SecondsPerMinute)]
              ELSE [notify |-> FALSE, last_at |-> last_at,
                    next_reminder |-> Some(Max(0, cooldown - (t - Val(last_at))))]
         ELSE [notify |-> FALSE, last_at |-> None, next_reminder |-> None]
    ELSE IF h.snooze_active /\ state = "PROLONGED_SEATED"
    THEN [notify |-> FALSE, last_at |-> last_at, next_reminder |-> Some(h.snooze_remaining)]
    ELSE IF h.quiet_active /\ state = "PROLONGED_SEATED"
    THEN [notify |-> FALSE, last_at |-> last_at, next_reminder |-> Some(h.quiet_remaining)]
    ELSE [notify |-> FALSE, last_at |-> last_at, next_reminder |-> None]

\* run_backend, lines 308-325: the configuration after the queued settings
TickConfig ==
    IF settings_update = None THEN config ELSE ApplySettings(config, Val(settings_update))

TickCooldown ==
    IF settings_update = None THEN cooldown_seconds
    ELSE TickConfig.notification_cooldown_minutes * SecondsPerMinute

TickQuietSlots ==
    IF settings_update = None THEN quiet_slots ELSE ParseQuietSlots(TickConfig.quiet_hours)

\* run_backend, lines 335-339: the override status the tick reads
TickHeld ==
    LET quiet == QuietStatus(now, TickQuietSlots)
        flow == TimedState(flow_mode_until, now)
        snooze == TimedState(snooze_until, now)
    IN  [flow_active |-> flow.active, flow_remaining |-> flow.remaining,
         snooze_active |-> snooze.active, snooze_remaining |-> snooze.remaining,
         quiet_active |-> quiet.active, quiet_remaining |-> quiet.remaining]

\* engine.compute_snapshot() of the tick, line 402
TickCompute ==
    Compute(records, now, TickConfig, activity_window, baseline_activity,
            seated_started_at, visual_probe_requested_at, visual_probe_triggered_at)

\* mutant: every tick in SHORT_BREAK counts as a break
CountsBreak_EveryBreakTick(state, prev) == state = "SHORT_BREAK"

\* run_backend, lines 426-429: the tick enters SHORT_BREAK from another state
CountsBreak(state, prev) == state = "SHORT_BREAK" /\ prev \notin {"SHORT_BREAK", "NONE"}

\* run_backend, lines 301-306: a new calendar date starts the daily totals again
Rollover(d) ==
    IF d.today # d.date THEN [d EXCEPT !.date = d.today, !.break_count = 0] ELSE d

\* lines 308-327: the queued settings and the manual-reset request are consumed
ConsumeRequests ==
    /\ config' = TickConfig
    /\ cooldown_seconds' = TickCooldown
    /\ quiet_slots' = TickQuietSlots
    /\ settings_update' = None
    /\ manual_reset_requested' = FALSE

\* buffer.clear() raises AttributeError (SignalBuffer has no clear), after
\* engine.reset_state(): the exception leaves run_backend
ResetThenRaise ==
    /\ seated_started_at' = None
    /\ visual_probe_requested_at' = None
    /\ visual_probe_triggered_at' = None
    /\ running' = FALSE
    /\ tick' = NoTick
    /\ snap' = NoSnapshot
    /\ daily' = Rollover(daily)
    /\ UNCHANGED <<now, records, activity_window, baseline_activity, engineObs, tickFrame,
                   pc, held, vision_adapter, system_sleeping, was_sleeping,
                   last_notification_at, prev_state, user_actions>>

\* lines 415-495: the rest of a tick that holds snapshot c.snap and read h;
\* snooze_read is snooze_until as get_snooze_state left it, calls the number
\* of compute_snapshot calls the tick made, day the daily totals as the tick
\* holds them at line 415.  Of the other daily totals the tick
\* record keeps what the tick did to them: whether it added its delta to
\* daily_prolonged_seconds (line 422), and the seated seconds it offered to
\* daily_longest_seated_seconds (lines 425-427).
Publishes(c, h, cfg, cooldown, snooze_read, calls, day) ==
    LET state == c.snap.state
        cancel == h.snooze_active /\ state # "PROLONGED_SEATED"
        h2 == IF cancel THEN [h EXCEPT !.snooze_active = FALSE, !.snooze_remaining = 0]
              ELSE h
        r == ReminderPolicy(state, cfg.notifications_enabled, h2, last_notification_at,
                            now, cooldown, cfg.notification_cooldown_minutes)
    IN  /\ snooze_until' = IF cancel THEN 0 ELSE snooze_read
        /\ last_notification_at' = r.last_at
        /\ prev_state' = state
        /\ daily' = IF CountsBreak(state, prev_state)
                    THEN [day EXCEPT !.break_count = @ + 1]
                    ELSE day
        /\ tick' = [state |-> state, sleeping |-> FALSE, notified |-> r.notify,
                    next_reminder |-> r.next_reminder,
                    enabled |-> cfg.notifications_enabled,
                    flow |-> h2.flow_active, snooze |-> h2.snooze_active,
                    quiet |-> h2.quiet_active, last_before |-> last_notification_at,
                    cooldown |-> cooldown, computes |-> calls,
                    accrued_prolonged |-> (state = "PROLONGED_SEATED"),
                    longest_candidate |-> Some(c.snap.seated_seconds)]
        /\ snap' = c.snap
        /\ seated_started_at' = c.anchor
        /\ visual_probe_requested_at' = c.req
        /\ visual_probe_triggered_at' = c.trig

\* a tick that consumes a manual reset: engine.reset_state(), then buffer.clear()
TickManualReset ==
    /\ running /\ pc = "idle"
    /\ manual_reset_requested
    /\ ConsumeRequests
    /\ ResetThenRaise
    /\ UNCHANGED <<flow_mode_until, snooze_until>>

\* a tick on a sleep or wake edge: engine.reset_state(), then buffer.clear()
TickSleepEdge ==
    /\ running /\ pc = "idle"
    /\ ~manual_reset_requested
    /\ system_sleeping # was_sleeping
    /\ ConsumeRequests
    /\ flow_mode_until' = TimedState(flow_mode_until, now).until
    /\ snooze_until' = TimedState(snooze_until, now).until
    /\ ResetThenRaise

\* mutant: the sleeping tick publishes what the engine computes
SleepingSnapshot_FromEngine == TickCompute.snap

\* the frozen ActivitySnapshot of a sleeping tick, lines 348-371
SleepingSnapshot ==
    [state |-> "SHORT_BREAK", score |-> ScoreScale, seated_seconds |-> 0,
     break_seconds |-> 0, activity_sum |-> 0, pending |-> FALSE, empty |-> FALSE]

\* a tick while asleep: the frozen snapshot, lines 341-394
TickSleeping ==
    /\ running /\ pc = "idle"
    /\ ~manual_reset_requested
    /\ system_sleeping /\ was_sleeping
    /\ ConsumeRequests
    /\ flow_mode_until' = TimedState(flow_mode_until, now).until
    /\ snooze_until' = TimedState(snooze_until, now).until
    /\ last_notification_at' = None
    /\ prev_state' = "SHORT_BREAK"
    /\ tick' = [state |-> "SHORT_BREAK", sleeping |-> TRUE, notified |-> FALSE,
                next_reminder |-> None,
                enabled |-> TickConfig.notifications_enabled,
                flow |-> TickHeld.flow_active, snooze |-> TickHeld.snooze_active,
                quiet |-> TickHeld.quiet_active, last_before |-> last_notification_at,
                cooldown |-> TickCooldown, computes |-> 0,
                accrued_prolonged |-> FALSE, longest_candidate |-> None]
    /\ snap' = SleepingSnapshot
    /\ daily' = Rollover(daily)
    /\ UNCHANGED <<now, records, activity_window, baseline_activity, seated_started_at,
                   visual_probe_requested_at, visual_probe_triggered_at, engineObs, tickFrame,
                   running, pc, held, vision_adapter, system_sleeping, was_sleeping,
                   user_actions>>

\* an awake tick whose snapshot asks for a probe: suspended at line 411
TickProbe ==
    /\ running /\ pc = "idle"
    /\ ~manual_reset_requested
    /\ ~system_sleeping /\ ~was_sleeping
    /\ TickCompute.snap.pending /\ vision_adapter
    /\ ConsumeRequests
    /\ flow_mode_until' = TimedState(flow_mode_until, now).until
    /\ snooze_until' = TimedState(snooze_until, now).until
    /\ seated_started_at' = TickCompute.anchor
    /\ visual_probe_requested_at' = TickCompute.req
    /\ visual_probe_triggered_at' = TickCompute.trig
    /\ snap' = TickCompute.snap
    /\ pc' = "probing"
    /\ held' = TickHeld
    /\ tick' = NoTick
    /\ daily' = Rollover(daily)
    /\ UNCHANGED <<now, records, activity_window, baseline_activity, engineObs, tickFrame,
                   running, vision_adapter, system_sleeping, was_sleeping,
                   last_notification_at, prev_state, user_actions>>

\* an awake tick without a probe, lines 396-506
TickAwake ==
    /\ running /\ pc = "idle"
    /\ ~manual_reset_requested
    /\ ~system_sleeping /\ ~was_sleeping
    /\ ~(TickCompute.snap.pending /\ vision_adapter)
    /\ ConsumeRequests
    /\ flow_mode_until' = TimedState(flow_mode_until, now).until
    /\ Publishes(TickCompute, TickHeld, TickConfig, TickCooldown,
                 TimedState(snooze_until, now).until, 1, Rollover(daily))
    /\ UNCHANGED <<now, records, activity_window, baseline_activity, engineObs, tickFrame,
                   running, pc, held, vision_adapter, system_sleeping, was_sleeping,
                   user_actions>>

\* the probe returns: mark_visual_probe_fired, compute_snapshot again, lines 412-506
ProbeReturns ==
    /\ running /\ pc = "probing"
    /\ LET trig == IF visual_probe_requested_at = None THEN visual_probe_triggered_at
                   ELSE Some(now)
           c == Compute(records, now, config, activity_window, baseline_activity,
                        seated_started_at, visual_probe_requested_at, trig)
       IN  Publishes(c, held, config, cooldown_seconds, snooze_until, 2, daily)
    /\ pc' = "idle"
    /\ held' = NoHeld
    /\ UNCHANGED <<now, records, config, activity_window, baseline_activity, engineObs, tickFrame,
                   running, vision_adapter, system_sleeping, was_sleeping,
                   flow_mode_until, settings_update, manual_reset_requested,
                   quiet_slots, cooldown_seconds, user_actions>>

\* the probe raises: line 411 is inside no try but the loop's try/finally,
\* so the exception leaves run_backend
ProbeRaises ==
    /\ running /\ pc = "probing"
    /\ running' = FALSE
    /\ pc' = "probe_raised"
    /\ tick' = NoTick
    /\ snap' = NoSnapshot
    /\ UNCHANGED <<now, records, config, activity_window, baseline_activity,
                   seated_started_at, visual_probe_requested_at,
                   visual_probe_triggered_at, engineObs, extVars,
                   held, vision_adapter, system_sleeping, was_sleeping,
                   flow_mode_until, snooze_until, settings_update,
                   manual_reset_requested, quiet_slots, cooldown_seconds,
                   last_notification_at, prev_state, user_actions>>

\* a producer of run_backend appends a record
LoopPublish ==
    /\ running
    /\ \E r \in LoopPublished(now) : records' = BufferAppend(records, r)
    /\ tick' = NoTick
    /\ snap' = NoSnapshot
    /\ UNCHANGED <<now, config, activity_window, baseline_activity, seated_started_at,
                   visual_probe_requested_at, visual_probe_triggered_at, engineObs, extVars,
                   running, pc, held, vision_adapter, system_sleeping, was_sleeping,
                   flow_mode_until, snooze_until, settings_update,
                   manual_reset_requested, quiet_slots, cooldown_seconds,
                   last_notification_at, prev_state, user_actions>>

\* time passes (asyncio.sleep(2.0), or the probe's duration)
LoopAdvance ==
    /\ running
    /\ \E t \in LoopInstants :
          /\ t > now
          /\ pc = "probing" => t - now <= ProbeDuration
          /\ now' = t
    /\ tick' = NoTick
    /\ snap' = NoSnapshot
    /\ UNCHANGED <<records, config, activity_window, baseline_activity, seated_started_at,
                   visual_probe_requested_at, visual_probe_triggered_at, engineObs, extVars,
                   running, pc, held, vision_adapter, system_sleeping, was_sleeping,
                   flow_mode_until, snooze_until, settings_update,
                   manual_reset_requested, quiet_slots, cooldown_seconds,
                   last_notification_at, prev_state, user_actions>>

\* a request of the GUI thread changes SharedState only
UserAction ==
    /\ running
    /\ user_actions < MaxUserActions
    /\ user_actions' = user_actions + 1
    /\ tick' = NoTick
    /\ snap' = NoSnapshot
    /\ UNCHANGED <<now, records, config, activity_window, baseline_activity,
                   seated_started_at, visual_probe_requested_at,
                   visual_probe_triggered_at, engineObs, extVars,
                   running, pc, held, vision_adapter, was_sleeping,
                   quiet_slots, cooldown_seconds, last_notification_at, prev_state>>

\* SharedState.set_system_sleeping, from the sleep and wake notifications
SetSystemSleeping ==
    /\ UserAction
    /\ system_sleeping' = ~system_sleeping
    /\ UNCHANGED <<flow_mode_until, snooze_until, settings_update, manual_reset_requested>>

\* SharedState.activate_flow_mode
ActivateFlowMode ==
    /\ UserAction
    /\ \E d \in FlowMinutes : flow_mode_until' = now + d * SecondsPerMinute
    /\ UNCHANGED <<system_sleeping, snooze_until, settings_update, manual_reset_requested>>

\* SharedState.cancel_flow_mode
CancelFlowMode ==
    /\ UserAction
    /\ flow_mode_until # 0
    /\ flow_mode_until' = 0
    /\ UNCHANGED <<system_sleeping, snooze_until, settings_update, manual_reset_requested>>

\* SharedState.activate_snooze
ActivateSnooze ==
    /\ UserAction
    /\ \E d \in SnoozeMinutes : snooze_until' = now + d * SecondsPerMinute
    /\ UNCHANGED <<system_sleeping, flow_mode_until, settings_update, manual_reset_requested>>

\* SharedState.cancel_snooze
CancelSnooze ==
    /\ UserAction
    /\ snooze_until # 0
    /\ snooze_until' = 0
    /\ UNCHANGED <<system_sleeping, flow_mode_until, settings_update, manual_reset_requested>>

\* SharedState.queue_settings_update
QueueSettingsUpdate ==
    /\ UserAction
    /\ \E st \in SettingsChoices : settings_update' = Some(st)
    /\ UNCHANGED <<system_sleeping, flow_mode_until, snooze_until, manual_reset_requested>>

\* SharedState.request_manual_reset
RequestManualReset ==
    /\ UserAction
    /\ manual_reset_requested' = TRUE
    /\ UNCHANGED <<system_sleeping, flow_mode_until, snooze_until, settings_update>>

\* run_backend up to its loop, lines 213-293
InitLoop ==
    /\ now = 0
    /\ records = <<>>
    /\ \E enabled \in BOOLEAN : config = LoopConfig(enabled)
    /\ activity_window = ActivityWindow(config)
    /\ baseline_activity = BaselineActivity(config)
    /\ seated_started_at = None
    /\ visual_probe_requested_at = None
    /\ visual_probe_triggered_at = None
    /\ snap = NoSnapshot
    /\ prev_snap = NoSnapshot
    /\ fresh = FALSE
    /\ repeat = FALSE
    /\ last_issue_at = None
    /\ issue_gap = None
    /\ marked = FALSE
    /\ running = TRUE
    /\ pc = "idle"
    /\ held = NoHeld
    /\ vision_adapter \in BOOLEAN
    /\ system_sleeping \in BOOLEAN
    /\ was_sleeping = system_sleeping
    /\ flow_mode_until = 0
    /\ snooze_until = 0
    /\ settings_update = None
    /\ manual_reset_requested = FALSE
    /\ quiet_slots = ParseQuietSlots(config.quiet_hours)
    /\ cooldown_seconds = config.notification_cooldown_minutes * SecondsPerMinute
    /\ last_notification_at = None
    /\ prev_state = "NONE"
    /\ tick = NoTick
    /\ user_actions = 0
    /\ ExtIdle

NextLoop ==
    \/ TickManualReset
    \/ TickSleepEdge
    \/ TickSleeping
    \/ TickProbe
    \/ TickAwake
    \/ ProbeReturns
    \/ ProbeRaises
    \/ LoopPublish
    \/ LoopAdvance
    \/ SetSystemSleeping
    \/ ActivateFlowMode
    \/ CancelFlowMode
    \/ ActivateSnooze
    \/ CancelSnooze
    \/ QueueSettingsUpdate
    \/ RequestManualReset

SpecLoop == InitLoop /\ [][NextLoop]_vars

----------------------------------------------------------------------------
(* The loop over several seated episodes: a short configuration, a longer  *)
(* clock and the calendar.                                                 *)

\* prolonged after 1 minute, a break after 1 minute without activity, the
\* default cooldown of 30 minutes
EpisodeConfig == AppConfig(1, 1, 1)

EpisodeInstants == {0, 58, 60, 118, 178}

\* the calendar dates of a run, in days
Dates == {0, 1}

\* time passes (asyncio.sleep(2.0), or the probe's duration)
EpisodeAdvance ==
    /\ running
    /\ \E t \in EpisodeInstants :
          /\ t > now
          /\ pc = "probing" => t - now <= ProbeDuration
          /\ now' = t
    /\ tick' = NoTick
    /\ snap' = NoSnapshot
    /\ UNCHANGED <<records, config, activity_window, baseline_activity, seated_started_at,
                   visual_probe_requested_at, visual_probe_triggered_at, engineObs, extVars,
                   running, pc, held, vision_adapter, system_sleeping, was_sleeping,
                   flow_mode_until, snooze_until, settings_update,
                   manual_reset_requested, quiet_slots, cooldown_seconds,
                   last_notification_at, prev_state, user_actions>>

\* midnight passes: dt.date.today() reports the next date
Midnight ==
    /\ running
    /\ daily.today + 1 \in Dates
    /\ daily' = [daily EXCEPT !.today = @ + 1]
    /\ tick' = NoTick
    /\ snap' = NoSnapshot
    /\ UNCHANGED <<now, records, config, activity_window, baseline_activity,
                   seated_started_at, visual_probe_requested_at,
                   visual_probe_triggered_at, engineObs, tickFrame,
                   running, pc, held, vision_adapter, system_sleeping, was_sleeping,
                   flow_mode_until, snooze_until, settings_update,
                   manual_reset_requested, quiet_slots, cooldown_seconds,
                   last_notification_at, prev_state, user_actions>>

\* run_backend up to its loop, lines 213-293, with the short configuration
InitEpisodes ==
    /\ now = 0
    /\ records = <<>>
    /\ config = EpisodeConfig
    /\ activity_window = ActivityWindow(config)
    /\ baseline_activity = BaselineActivity(config)
    /\ seated_started_at = None
    /\ visual_probe_requested_at = None
    /\ visual_probe_triggered_at = None
    /\ snap = NoSnapshot
    /\ prev_snap = NoSnapshot
    /\ fresh = FALSE
    /\ repeat = FALSE
    /\ last_issue_at = None
    /\ issue_gap = None
    /\ marked = FALSE
    /\ running = TRUE
    /\ pc = "idle"
    /\ held = NoHeld
    /\ vision_adapter \in BOOLEAN
    /\ system_sleeping \in BOOLEAN
    /\ was_sleeping = system_sleeping
    /\ flow_mode_until = 0
    /\ snooze_until = 0
    /\ settings_update = None
    /\ manual_reset_requested = FALSE
    /\ quiet_slots = ParseQuietSlots(config.quiet_hours)
    /\ cooldown_seconds = config.notification_cooldown_minutes * SecondsPerMinute
    /\ last_notification_at = None
    /\ prev_state = "NONE"
    /\ tick = NoTick
    /\ user_actions = 0
    /\ ExtIdle

NextEpisodes ==
    \/ TickManualReset
    \/ TickSleepEdge
    \/ TickSleeping
    \/ TickProbe
    \/ TickAwake
    \/ ProbeReturns
    \/ LoopPublish
    \/ EpisodeAdvance
    \/ Midnight
    \/ SetSystemSleeping
    \/ ActivateFlowMode
    \/ ActivateSnooze
    \/ RequestManualReset

SpecEpisodes == InitEpisodes /\ [][NextEpisodes]_vars

\* C21: a PROLONGED_SEATED episode starts fresh: the first tick of an episode
\* (the tick before it published another state), with notifications enabled
\* and no override active, issues a notification, whatever happened since the
\* previous episode's notification.
NewEpisodeNotifies ==
    [][(/\ tick' # NoTick
        /\ tick'.state = "PROLONGED_SEATED"
        /\ prev_state # "PROLONGED_SEATED"
        /\ tick'.enabled
        /\ ~tick'.flow /\ ~tick'.snooze /\ ~tick'.quiet) => tick'.notified]_vars

\* the step is a tick that enters SHORT_BREAK from ACTIVE or PROLONGED_SEATED
EntersBreak ==
    /\ tick' # NoTick
    /\ ~tick'.sleeping
    /\ tick'.state = "SHORT_BREAK"
    /\ prev_state \in {"ACTIVE", "PROLONGED_SEATED"}

\* C23: the daily break count grows by exactly one on a tick in SHORT_BREAK
\* whose previous tick was ACTIVE or PROLONGED_SEATED and is unchanged by
\* every other step, apart from starting again at 0 on a new calendar date.
DailyBreakCount ==
    [][daily'.break_count = (IF daily'.date # daily.date THEN 0 ELSE daily.break_count)
                            + (IF EntersBreak THEN 1 ELSE 0)]_vars

\* two breaks of one day have been counted
SecondBreakCounted ==
    /\ tick.state = "SHORT_BREAK"
    /\ ~tick.sleeping
    /\ daily.break_count = 2

----------------------------------------------------------------------------
(* The top of a tick against the GUI thread: every SharedState method is   *)
(* one critical section of SharedState._lock, and the GUI thread may run   *)
(* between any two of the loop's calls.  Of a run the requests record      *)
(* remembers the settings queued since the latest pop (queued) and up to   *)
(* it (popped), the number of applications, the reset requests since the   *)
(* latest consume (asked), the consumes that followed a request (batches)  *)
(* and the resets made.                                                    *)

requestsFrame ==
    <<now, records, activity_window, baseline_activity, snap, engineObs,
      pc, held, vision_adapter, system_sleeping, was_sleeping, flow_mode_until,
      snooze_until, tick, error, appended, lock, threads, returned, controller, daily, monitor, shared>>

\* mutant: the queued settings stay in the slot
PopSettings_KeepQueued(su) == su

\* SharedState.pop_settings_update, line 194: the slot after the pop
PopSettings(su) == None

\* SharedState.queue_settings_update, called by the settings dialog
GuiQueuesSettings ==
    /\ running
    /\ user_actions < MaxUserActions
    /\ user_actions' = user_actions + 1
    /\ \E st \in SettingsChoices :
          /\ settings_update' = Some(st)
          /\ requests' = [requests EXCEPT !.queued = Append(@, st)]
    /\ UNCHANGED <<requestsFrame, config, cooldown_seconds, quiet_slots, running,
                   manual_reset_requested, seated_started_at, visual_probe_requested_at,
                   visual_probe_triggered_at, last_notification_at, prev_state>>

\* SharedState.request_manual_reset, called by the menu
GuiRequestsReset ==
    /\ running
    /\ user_actions < MaxUserActions
    /\ user_actions' = user_actions + 1
    /\ manual_reset_requested' = TRUE
    /\ requests' = [requests EXCEPT !.asked = @ + 1]
    /\ UNCHANGED <<requestsFrame, config, cooldown_seconds, quiet_slots, running,
                   settings_update, seated_started_at, visual_probe_requested_at,
                   visual_probe_triggered_at, last_notification_at, prev_state>>

\* run_backend, line 308: pending_settings = shared.pop_settings_update()
LoopPopsSettings ==
    /\ running
    /\ requests.pc = "pop"
    /\ settings_update' = PopSettings(settings_update)
    /\ requests' = [requests EXCEPT !.pc = "apply",
                                    !.pending_settings = settings_update,
                                    !.popped = requests.queued,
                                    !.queued = <<>>]
    /\ UNCHANGED <<requestsFrame, config, cooldown_seconds, quiet_slots, running,
                   manual_reset_requested, seated_started_at, visual_probe_requested_at,
                   visual_probe_triggered_at, last_notification_at, prev_state,
                   user_actions>>

\* run_backend, lines 309-325: the popped settings replace the three fields of
\* the configuration, the cooldown and the parsed quiet slots
LoopAppliesSettings ==
    /\ running
    /\ requests.pc = "apply"
    /\ IF requests.pending_settings = None
       THEN /\ UNCHANGED <<config, cooldown_seconds, quiet_slots>>
            /\ requests' = [requests EXCEPT !.pc = "consume"]
       ELSE LET cfg == ApplySettings(config, Val(requests.pending_settings))
            IN  /\ config' = cfg
                /\ cooldown_seconds' = cfg.notification_cooldown_minutes * SecondsPerMinute
                /\ quiet_slots' = ParseQuietSlots(cfg.quiet_hours)
                /\ requests' = [requests EXCEPT !.pc = "consume", !.applied = @ + 1]
    /\ UNCHANGED <<requestsFrame, running, settings_update,
                   manual_reset_requested, seated_started_at, visual_probe_requested_at,
                   visual_probe_triggered_at, last_notification_at, prev_state,
                   user_actions>>

\* run_backend, line 327: shared.consume_manual_reset()
LoopConsumesReset ==
    /\ running
    /\ requests.pc = "consume"
    /\ manual_reset_requested' = FALSE
    /\ requests' = [requests EXCEPT !.pc = IF manual_reset_requested THEN "reset" ELSE "rest",
                                    !.asked = 0,
                                    !.batches = IF requests.asked > 0 THEN @ + 1 ELSE @]
    /\ UNCHANGED <<requestsFrame, config, cooldown_seconds, quiet_slots, running,
                   settings_update, seated_started_at, visual_probe_requested_at,
                   visual_probe_triggered_at, last_notification_at, prev_state,
                   user_actions>>

\* run_backend, lines 328-331: engine.reset_state(), then buffer.clear() raises
\* AttributeError, which leaves run_backend
LoopResets ==
    /\ running
    /\ requests.pc = "reset"
    /\ seated_started_at' = None
    /\ visual_probe_requested_at' = None
    /\ visual_probe_triggered_at' = None
    /\ running' = FALSE
    /\ requests' = [requests EXCEPT !.pc = "raised", !.resets = @ + 1]
    /\ UNCHANGED <<requestsFrame, config, cooldown_seconds, quiet_slots,
                   settings_update, manual_reset_requested, last_notification_at,
                   prev_state, user_actions>>

\* run_backend, lines 335-506: the rest of the tick and the sleep of 2 s touch
\* neither the settings slot nor the reset flag
LoopFinishesTick ==
    /\ running
    /\ requests.pc = "rest"
    /\ requests' = [requests EXCEPT !.pc = "pop", !.pending_settings = None]
    /\ UNCHANGED <<requestsFrame, config, cooldown_seconds, quiet_slots, running,
                   settings_update, manual_reset_requested, seated_started_at,
                   visual_probe_requested_at, visual_probe_triggered_at,
                   last_notification_at, prev_state, user_actions>>

NextRequests ==
    \/ GuiQueuesSettings
    \/ GuiRequestsReset
    \/ LoopPopsSettings
    \/ LoopAppliesSettings
    \/ LoopConsumesReset
    \/ LoopResets
    \/ LoopFinishesTick

SpecRequests == InitEpisodes /\ [][NextRequests]_vars

\* the step applies settings st as a whole
AppliesWhole(st) ==
    /\ config' = ApplySettings(config, st)
    /\ cooldown_seconds' = st.notification_cooldown_minutes * SecondsPerMinute
    /\ quiet_slots' = ParseQuietSlots(st.quiet_hours)
    /\ requests'.applied = requests.applied + 1

\* the step applies nothing
AppliesNothing ==
    /\ UNCHANGED <<config, cooldown_seconds, quiet_slots>>
    /\ requests'.applied = requests.applied

\* C24: the settings queued before a pop are applied by that tick, once: the
\* most recently queued one, with its three fields together, and nothing
\* when nothing was queued since the pop before; no other step changes the
\* configuration.  Manual-reset requests made before a consume cause one
\* reset, however many there were, and no reset happens without a request.
QueuedRequestsAppliedOnce ==
    /\ [][IF requests.pc = "apply" /\ requests'.pc = "consume" /\ requests.popped # <<>>
          THEN AppliesWhole(requests.popped[Len(requests.popped)])
          ELSE AppliesNothing]_vars
    /\ [][requests'.resets = requests.resets + (IF requests.pc = "reset" /\ requests'.pc = "raised" THEN 1 ELSE 0)]_vars
    /\ [](requests.resets + (IF requests.pc = "reset" THEN 1 ELSE 0) = requests.batches)

\* two updates were queued between two pops and the later one is in force
LaterOfTwoApplied ==
    /\ Len(requests.popped) = 2
    /\ requests.popped[1] # requests.popped[2]
    /\ requests.pc = "consume"
    /\ requests.applied = 1

----------------------------------------------------------------------------
(* Properties of the orchestration loop                                    *)

\* the latest step was a tick that computed PROLONGED_SEATED with notifications
\* enabled and read no flow-mode, snooze or quiet-hours override
ReminderConsidered ==
    /\ tick.state = "PROLONGED_SEATED"
    /\ ~tick.sleeping
    /\ tick.enabled
    /\ ~tick.flow /\ ~tick.snooze /\ ~tick.quiet

SinceLastFiring == now - Val(tick.last_before)

\* C7 Reminder cooldown: a tick in PROLONGED_SEATED with notifications enabled
\* and no override notifies exactly when there is no last-notification
\* timestamp or at least the cooldown has passed since it; otherwise it
\* reports the cooldown minus the elapsed time as the next reminder.  Hence a
\* notification that follows an earlier one of the episode is at least one
\* cooldown later.
ReminderCooldown ==
    /\ ReminderConsidered =>
         /\ tick.notified <=>
              (tick.last_before = None \/ SinceLastFiring >= tick.cooldown)
         /\ ~tick.notified =>
              tick.next_reminder = Some(tick.cooldown - SinceLastFiring)
    /\ (tick.notified /\ tick.last_before # None) =>
         SinceLastFiring >= tick.cooldown

\* a tick half a cooldown after the firing stays silent and reports the rest
SilentInsideCooldown ==
    /\ ReminderConsidered
    /\ ~tick.notified
    /\ tick.last_before # None
    /\ 2 * SinceLastFiring = tick.cooldown
    /\ tick.next_reminder = Some(SinceLastFiring)

\* C8 Reminder suppression: a tick publishes a notification only if its state
\* is PROLONGED_SEATED, notifications are enabled and none of flow mode,
\* snooze and quiet hours is active at that moment, and never while the
\* system is marked sleeping.
ReminderSuppression ==
    tick.notified =>
        /\ tick.state = "PROLONGED_SEATED"
        /\ config.notifications_enabled
        /\ ~TimedState(flow_mode_until, now).active
        /\ ~TimedState(snooze_until, now).active
        /\ ~QuietStatus(now, quiet_slots).active
        /\ ~system_sleeping


\* C12 Probe failures never stop the tick loop: when the probe the tick
\* awaits raises, the loop goes on.
ProbeFailureAbsorbed == pc = "probe_raised" => running

\* C13 Reset on discontinuity: a tick that consumes a manual-reset request,
\* and the first awake tick after sleeping ticks, empties the buffer and clears
\* the engine's timers, and the loop keeps ticking.
ResetOnDiscontinuity ==
    [][(TickManualReset \/ (TickSleepEdge /\ was_sleeping /\ ~system_sleeping)) =>
         /\ running'
         /\ records' = <<>>
         /\ seated_started_at' = None
         /\ visual_probe_requested_at' = None
         /\ visual_probe_triggered_at' = None]_vars

SnoozeAutoCancel ==
    tick.state \notin {"NONE", "PROLONGED_SEATED"} => (snooze_until = 0 /\ ~tick.snooze)

----------------------------------------------------------------------------
(* Sustained sitting.  The user types at every instant of the run, the     *)
(* camera may add a sample that does not show them, and nobody touches the *)
(* GUI or puts the machine to sleep.  The loop ticks every 2 seconds, so   *)
(* it has ticked before the clock shows the next instant; a tick runs when *)
(* its activity window holds a record with positive volume.                *)

SittingInstants == {0, 30, 57, 60, 90, 150}

\* the window of the tick holds a record with positive keyboard/mouse volume
KeysInWindow == HasRecentKeyboardMouse(records, now, activity_window)

\* the input monitor has published the events of the current instant
TypedNow == \E i \in 1..Len(records) : records[i].timestamp = now /\ Volume(records[i]) > 0

\* the input monitor publishes the user's key presses
Typing ==
    /\ running
    /\ ~TypedNow
    /\ records' = BufferAppend(records, InputRecord(now, 10))
    /\ tick' = NoTick
    /\ snap' = NoSnapshot
    /\ UNCHANGED <<now, config, activity_window, baseline_activity, seated_started_at,
                   visual_probe_requested_at, visual_probe_triggered_at, engineObs, extVars,
                   running, pc, held, vision_adapter, system_sleeping, was_sleeping,
                   flow_mode_until, snooze_until, settings_update,
                   manual_reset_requested, quiet_slots, cooldown_seconds,
                   last_notification_at, prev_state, user_actions>>

\* the camera publishes a tracked sample with confidence below the threshold
Watching ==
    /\ running
    /\ ~\E i \in 1..Len(records) :
            records[i].timestamp = now /\ Has(records[i], "presence_confidence")
    /\ records' = BufferAppend(records, VisionRecord(now, 20, 0, "unknown", 0))
    /\ tick' = NoTick
    /\ snap' = NoSnapshot
    /\ UNCHANGED <<now, config, activity_window, baseline_activity, seated_started_at,
                   visual_probe_requested_at, visual_probe_triggered_at, engineObs, extVars,
                   running, pc, held, vision_adapter, system_sleeping, was_sleeping,
                   flow_mode_until, snooze_until, settings_update,
                   manual_reset_requested, quiet_slots, cooldown_seconds,
                   last_notification_at, prev_state, user_actions>>

\* time passes to the next instant (asyncio.sleep(2.0), or the probe's
\* duration): the user has typed and the loop has ticked since
SittingAdvance ==
    /\ running
    /\ TypedNow
    /\ tick # NoTick \/ pc = "probing"
    /\ \E t \in SittingInstants :
          /\ t > now
          /\ \A u \in SittingInstants : u > now => t <= u
          /\ pc = "probing" => t - now <= ProbeDuration
          /\ now' = t
    /\ tick' = NoTick
    /\ snap' = NoSnapshot
    /\ UNCHANGED <<records, config, activity_window, baseline_activity, seated_started_at,
                   visual_probe_requested_at, visual_probe_triggered_at, engineObs, extVars,
                   running, pc, held, vision_adapter, system_sleeping, was_sleeping,
                   flow_mode_until, snooze_until, settings_update,
                   manual_reset_requested, quiet_slots, cooldown_seconds,
                   last_notification_at, prev_state, user_actions>>

\* a tick of the loop over such a window
SittingTick == KeysInWindow /\ TickAwake

\* a tick over such a window that is suspended in the probe
SittingTickProbe == KeysInWindow /\ TickProbe

\* the probe of a suspended tick returns over such a window
SittingProbeReturns == KeysInWindow /\ ProbeReturns

\* run_backend up to its loop, awake, with notifications on or off
InitSitting ==
    /\ now = 0
    /\ records = <<>>
    /\ \E enabled \in BOOLEAN :
          config = [EpisodeConfig EXCEPT !.notifications_enabled = enabled]
    /\ activity_window = ActivityWindow(config)
    /\ baseline_activity = BaselineActivity(config)
    /\ seated_started_at = None
    /\ visual_probe_requested_at = None
    /\ visual_probe_triggered_at = None
    /\ snap = NoSnapshot
    /\ prev_snap = NoSnapshot
    /\ fresh = FALSE
    /\ repeat = FALSE
    /\ last_issue_at = None
    /\ issue_gap = None
    /\ marked = FALSE
    /\ running = TRUE
    /\ pc = "idle"
    /\ held = NoHeld
    /\ vision_adapter \in BOOLEAN
    /\ system_sleeping = FALSE
    /\ was_sleeping = FALSE
    /\ flow_mode_until = 0
    /\ snooze_until = 0
    /\ settings_update = None
    /\ manual_reset_requested = FALSE
    /\ quiet_slots = ParseQuietSlots(config.quiet_hours)
    /\ cooldown_seconds = config.notification_cooldown_minutes * SecondsPerMinute
    /\ last_notification_at = None
    /\ prev_state = "NONE"
    /\ tick = NoTick
    /\ user_actions = 0
    /\ ExtIdle

NextSitting ==
    \/ SittingTick
    \/ SittingTickProbe
    \/ SittingProbeReturns
    \/ ProbeRaises
    \/ Typing
    \/ Watching
    \/ SittingAdvance

\* the loop task keeps ticking, the user keeps typing and time passes; a
\* probe may raise or return
SpecSitting ==
    /\ InitSitting
    /\ [][NextSitting]_vars
    /\ WF_vars(SittingTick)
    /\ WF_vars(SittingTickProbe)
    /\ WF_vars(SittingProbeReturns)
    /\ WF_vars(Typing)
    /\ WF_vars(SittingAdvance)

----------------------------------------------------------------------------
(* Quiet hours.  The configuration holds slots of two times of day, the    *)
(* loop parses them before its first tick and asks _quiet_status at the    *)
(* top of every tick.  A time of day is <<hour, minute>>; 24:00 is a time  *)
(* _time_str_to_minutes rejects.                                           *)

QuietTimes == {<<0, 2>>, <<0, 3>>, <<23, 58>>, <<24, 0>>}

\* the quiet_hours of a configuration: one or two slots
QuietHoursChoices ==
    {<< <<a, b>> >> : a \in QuietTimes, b \in QuietTimes}
        \cup {<< <<a, b>>, <<c, d>> >> : a \in QuietTimes, b \in QuietTimes,
                                        c \in QuietTimes, d \in QuietTimes}

\* the instants at which the loop reads the clock, on two days
QuietInstants == {0, 119, 120, 179, 180, 86280, 86399, 86400, 86520}

quietFrame ==
    <<records, activity_window, baseline_activity, seated_started_at,
      visual_probe_requested_at, visual_probe_triggered_at, snap, engineObs,
      running, pc, vision_adapter, system_sleeping, was_sleeping,
      flow_mode_until, snooze_until, settings_update, manual_reset_requested,
      cooldown_seconds, last_notification_at, prev_state, tick, user_actions, extVars>>

\* run_backend up to its loop, line 227: the quiet hours of the configuration are parsed
InitQuiet ==
    /\ now = 0
    /\ records = <<>>
    /\ \E q \in QuietHoursChoices : config = [EpisodeConfig EXCEPT !.quiet_hours = q]
    /\ activity_window = ActivityWindow(config)
    /\ baseline_activity = BaselineActivity(config)
    /\ seated_started_at = None
    /\ visual_probe_requested_at = None
    /\ visual_probe_triggered_at = None
    /\ snap = NoSnapshot
    /\ prev_snap = NoSnapshot
    /\ fresh = FALSE
    /\ repeat = FALSE
    /\ last_issue_at = None
    /\ issue_gap = None
    /\ marked = FALSE
    /\ running = TRUE
    /\ pc = "idle"
    /\ held = NoHeld
    /\ vision_adapter = FALSE
    /\ system_sleeping = FALSE
    /\ was_sleeping = FALSE
    /\ flow_mode_until = 0
    /\ snooze_until = 0
    /\ settings_update = None
    /\ manual_reset_requested = FALSE
    /\ quiet_slots = ParseQuietSlots(config.quiet_hours)
    /\ cooldown_seconds = config.notification_cooldown_minutes * SecondsPerMinute
    /\ last_notification_at = None
    /\ prev_state = "NONE"
    /\ tick = NoTick
    /\ user_actions = 0
    /\ ExtIdle

\* time passes
QuietClock ==
    /\ \E t \in QuietInstants : t > now /\ now' = t
    /\ held' = NoHeld
    /\ UNCHANGED <<config, quiet_slots, quietFrame>>

\* run_backend, line 335: quiet_active, quiet_remaining = _quiet_status(now, quiet_slots)
ReadsQuietStatus ==
    /\ held' = [NoHeld EXCEPT !.quiet_active = QuietStatus(now, quiet_slots).active,
                              !.quiet_remaining = QuietStatus(now, quiet_slots).remaining]
    /\ UNCHANGED <<now, config, quiet_slots, quietFrame>>

NextQuiet ==
    \/ QuietClock
    \/ ReadsQuietStatus

SpecQuiet == InitQuiet /\ [][NextQuiet]_vars

\* the time of day, in seconds
TimeOfDay == now % SecondsPerDay

\* a time of day the configuration may hold: hours 0..23, minutes 0..59
WellFormed(hm) == hm[1] \in 0..23 /\ hm[2] \in 0..59

\* the minutes of the day of a well-formed time
MinuteOfDay(hm) == hm[1] * 60 + hm[2]

\* the slot of the configuration is well-formed and its window holds the
\* time of day: start <= t < end, or over midnight t >= start or t < end
InQuietWindow(slot) ==
    /\ WellFormed(slot[1]) /\ WellFormed(slot[2])
    /\ LET start == MinuteOfDay(slot[1]) * SecondsPerMinute
           end == MinuteOfDay(slot[2]) * SecondsPerMinute
       IN  \/ start < end /\ start <= TimeOfDay /\ TimeOfDay < end
           \/ start > end /\ (TimeOfDay >= start \/ TimeOfDay < end)

\* the seconds from the time of day to the end of the slot
UntilEnd(slot) ==
    (MinuteOfDay(slot[2]) * SecondsPerMinute + SecondsPerDay - TimeOfDay) % SecondsPerDay

\* C38: quiet is active exactly when the time of day lies in the window of a
\* well-formed slot (start <= t < end, or t >= start or t < end for a window
\* over midnight); the remaining time is the time until the end of the first
\* such slot, positive and at most a day; a slot with start equal to end and
\* a malformed slot never activate quiet.
QuietHoursWindows ==
    [][ReadsQuietStatus =>
         LET q == config.quiet_hours
             In == {i \in 1..Len(q) : InQuietWindow(q[i])}
         IN  /\ held'.quiet_active <=> In # {}
             /\ In # {} =>
                   /\ held'.quiet_remaining = UntilEnd(q[CHOOSE i \in In : \A j \in In : i <= j])
                   /\ held'.quiet_remaining > 0
                   /\ held'.quiet_remaining <= SecondsPerDay
             /\ In = {} => held'.quiet_remaining = 0]_vars

\* C38 witness: after midnight inside a window that began the evening
\* before, next to a malformed slot that covers nothing.
QuietOverMidnight ==
    /\ held.quiet_active
    /\ config.quiet_hours = << <<(<<23, 58>>), (<<24, 0>>)>>, <<(<<23, 58>>), (<<0, 3>>)>> >>
    /\ now = 86520
    /\ held.quiet_remaining = 60

----------------------------------------------------------------------------
(* Malformed signal values.  SignalRecord.values maps a key to a float or  *)
(* a str; a record lists in bad the keys whose value is a string float()   *)
(* rejects, such as "n/a".  The numeric field of such a key holds 0, the   *)
(* value the coercions that catch the failure fall back to.                *)

Malformed(r, k) == "bad" \in DOMAIN r /\ k \in r.bad

WithBad(r, ks) == [bad |-> ks] @@ r

\* records a producer with a defect may publish at instant ts
MalformedPublished(ts) ==
    {WithBad(SignalRecord(ts, {"keyboard_mouse_activity", "total_events"},
                          0, 10, 0, 0, "unknown", 0), {"keyboard_mouse_activity"}),
     WithBad(SignalRecord(ts, {"total_events"}, 0, 0, 0, 0, "unknown", 0), {"total_events"}),
     WithBad(VisionRecord(ts, 0, 100, "upright", 100), {"presence_confidence"}),
     WithBad(VisionRecord(ts, 80, 0, "upright", 100), {"posture_score"}),
     WithBad(VisionRecord(ts, 80, 100, "upright", 0), {"presence_state"})}

\* _last_activity_time, lines 186-187: total is a non-empty string, and
\* total > 0 compares it with a number
TotalRaises(r) ==
    \/ Malformed(r, "keyboard_mouse_activity")
    \/ /\ ~(Has(r, "keyboard_mouse_activity") /\ r.keyboard_mouse_activity # 0)
       /\ Malformed(r, "total_events")

\* _last_activity_time: does the scan reach a record whose total raises
RECURSIVE ScanRaisesFrom(_, _, _)
ScanRaisesFrom(recs, i, cfg) ==
    IF i = 0 THEN FALSE
    ELSE IF TotalRaises(recs[i]) THEN TRUE
    ELSE IF QualifiesAsActivity(recs[i], cfg) THEN FALSE
    ELSE ScanRaisesFrom(recs, i - 1, cfg)

\* _latest_presence, lines 290-291: float() of the newest presence record's
\* presence_confidence and posture_score, outside any try
RECURSIVE PresenceRaisesFrom(_, _)
PresenceRaisesFrom(recs, i) ==
    IF i = 0 THEN FALSE
    ELSE IF Has(recs[i], "presence_confidence")
         THEN Malformed(recs[i], "presence_confidence") \/ Malformed(recs[i], "posture_score")
    ELSE PresenceRaisesFrom(recs, i - 1)

\* compute_snapshot: the exception that leaves the call, None if it returns
ComputeRaises(recs, cfg) ==
    IF recs = <<>> THEN None
    ELSE IF ScanRaisesFrom(recs, Len(recs), cfg) THEN Some("TypeError")
    ELSE IF PresenceRaisesFrom(recs, Len(recs)) THEN Some("ValueError")
    ELSE None

\* a producer appends a record with a malformed value
PublishMalformed ==
    /\ error = None
    /\ \E r \in MalformedPublished(now) : records' = BufferAppend(records, r)
    /\ Forget
    /\ UNCHANGED <<now, config, activity_window, baseline_activity, seated_started_at,
                   visual_probe_requested_at, visual_probe_triggered_at,
                   last_issue_at, marked, loopVars, extVars>>

\* a producer appends a well-formed record
PublishSound ==
    /\ error = None
    /\ Publish

\* time passes
AdvanceSound ==
    /\ error = None
    /\ Advance

\* compute_snapshot() on a buffer whose scans raise: no attribute was assigned yet
ComputeSnapshotRaises ==
    /\ error = None
    /\ ComputeRaises(records, config) # None
    /\ error' = ComputeRaises(records, config)
    /\ Forget
    /\ UNCHANGED <<now, records, config, activity_window, baseline_activity,
                   seated_started_at, visual_probe_requested_at,
                   visual_probe_triggered_at, last_issue_at, marked, loopVars,
                   appended, lock, threads, returned, controller, daily, requests, monitor, shared>>

\* compute_snapshot() returns
ComputeSnapshotReturns ==
    /\ error = None
    /\ ComputeRaises(records, config) = None
    /\ ComputeSnapshot

NextMalformed ==
    \/ PublishMalformed
    \/ PublishSound
    \/ AdvanceSound
    \/ ComputeSnapshotRaises
    \/ ComputeSnapshotReturns

\* an engine as the tests build it, before its first call
InitMalformed ==
    /\ Init
    /\ config = TestConfig
    /\ seated_started_at = None

SpecMalformed == InitMalformed /\ [][NextMalformed]_vars

\* C11 Malformed signal data never raises: whatever the buffer holds,
\* compute_snapshot returns a snapshot.
MalformedNeverRaises == error = None

----------------------------------------------------------------------------
(* Properties of the last-activity scan, checked under Spec.               *)

\* compute_snapshot, lines 86-88: the last-activity instant of a non-empty buffer
LastActivityInstant ==
    LET found == LastActivityTime(records, config)
    IN  IF found = None THEN records[Len(records)].timestamp ELSE Val(found)

\* the positions of the records with positive keyboard/mouse volume
Typed == {i \in 1..Len(records) : Volume(records[i]) > 0}

\* the positions of the records that show presence: confidence at or above the
\* threshold and, when presence_state is given, present
Present ==
    {i \in 1..Len(records) :
        /\ Has(records[i], "presence_confidence")
        /\ records[i].presence_confidence >= config.vision_presence_threshold
        /\ (Has(records[i], "presence_state") => records[i].presence_state >= 50)}

Newest(positions) == CHOOSE i \in positions : \A j \in positions : j <= i

OldestRecordIsLastResort ==
    (/\ fresh
     /\ records # <<>>
     /\ Typed \cup Present = {}
     /\ LatestPresence(records) = None)
    => snap.break_seconds = now - records[1].timestamp

TimersCleared ==
    /\ seated_started_at = None
    /\ visual_probe_requested_at = None
    /\ visual_probe_triggered_at = None

\* compute_snapshot, lines 93-105: the newest presence sample is trusted and
\* below the threshold, and no record of the window has positive volume
VisionForcesBreak ==
    /\ LowConfidenceVision
    /\ Val(LatestPresence(records)).posture_state # "untracked"
    /\ Val(LatestPresence(records)).confidence > MinVisionConfidence
    /\ ~FreshInput

\* the step is a compute_snapshot call on cleared timers and a buffer whose
\* last-activity instant is less than break_reset_minutes old
FreshStreakCall ==
    /\ fresh'
    /\ TimersCleared
    /\ records # <<>>
    /\ now - LastActivityInstant < BreakReset

\* the call reports the age of the last activity as seated and as break time
ReportsAgeOfLastActivity ==
    /\ snap'.seated_seconds = now - LastActivityInstant
    /\ snap'.break_seconds = now - LastActivityInstant
    /\ (now - LastActivityInstant < Prolonged => snap'.state = "ACTIVE")

\* reset_state leaves all three timers None and changes neither config nor buffer
ResetClearsTimers == [][ResetState => (TimersCleared' /\ UNCHANGED <<config, records>>)]_vars

\* C33 (as claimed): after reset_state, or on a new engine, the next
\* compute_snapshot on a buffer whose last-activity instant is d old, d below
\* break_reset_minutes, reports seated time = break time = d, and ACTIVE when
\* d is below prolonged_seated_minutes.
FreshStreakAfterReset ==
    ResetClearsTimers /\ [][FreshStreakCall => ReportsAgeOfLastActivity]_vars

\* C33 (amended): the same, unless the newest vision sample forces a break.
FreshStreakUnlessForcedBreak ==
    ResetClearsTimers /\ [][(FreshStreakCall /\ ~VisionForcesBreak) => ReportsAgeOfLastActivity]_vars

\* a streak anchored afresh at a last activity that lies before the call
AnchoredAtLastActivity ==
    /\ fresh /\ ~repeat
    /\ snap.state = "ACTIVE"
    /\ snap.seated_seconds > 0
    /\ snap.seated_seconds = snap.break_seconds
    /\ seated_started_at = Some(LastActivityInstant)
    /\ ~VisionForcesBreak

\* the newest presence sample shows the user: confidence at or above the
\* threshold and a posture state other than "untracked" (lines 247-252)
DefinitelyPresent ==
    /\ LatestPresence(records) # None
    /\ Val(LatestPresence(records)).confidence >= config.vision_presence_threshold
    /\ Val(LatestPresence(records)).posture_state # "untracked"

\* the step is a compute_snapshot call that issues a new probe request
IssuesProbeRequest ==
    /\ fresh'
    /\ visual_probe_requested_at' # None
    /\ visual_probe_requested_at' # visual_probe_requested_at

\* C34: compute_snapshot issues a new probe request (requested_at = now,
\* triggered_at = None) only on a call whose state is not PROLONGED_SEATED,
\* whose seated time is at least 95% of prolonged_seated_minutes, whose break
\* time is below break_reset_minutes, and whose newest vision sample does not
\* show the user definitely present.
ProbeRequestEligibility ==
    [][IssuesProbeRequest =>
          /\ visual_probe_requested_at' = Some(now)
          /\ visual_probe_triggered_at' = None
          /\ snap'.state # "PROLONGED_SEATED"
          /\ snap'.seated_seconds * 100 >= Prolonged * 95
          /\ snap'.break_seconds < BreakReset
          /\ ~DefinitelyPresent]_vars

\* C34 witness: a request issued by the latest call, shortly before the
\* seated time reaches prolonged_seated_minutes.
RequestIssuedNearThreshold ==
    /\ fresh
    /\ last_issue_at = Some(now)
    /\ visual_probe_requested_at = Some(now)
    /\ visual_probe_triggered_at = None
    /\ snap.state = "ACTIVE"
    /\ snap.seated_seconds * 100 >= Prolonged * 95
    /\ snap.pending

\* C35: after every compute_snapshot call that reports a break of at least
\* break_reset_minutes, or whose newest vision sample shows the user
\* definitely present, both probe timestamps are None and
\* should_trigger_visual_probe is false, whatever state the call returned.
ProbeNeedEvaporates ==
    (fresh /\ (snap.break_seconds >= BreakReset \/ DefinitelyPresent)) =>
        /\ visual_probe_requested_at = None
        /\ visual_probe_triggered_at = None
        /\ ~ShouldTrigger

\* the step is a tick that publishes, taken when the seated anchor is at
\* least prolonged_seated_minutes old
TickOverLongStreak ==
    /\ tick' # NoTick
    /\ seated_started_at # None
    /\ now - Val(seated_started_at) >= Prolonged

\* the tick reports PROLONGED_SEATED, and with notifications enabled it
\* notifies if the tick before it reported another state
ReportsProlonged ==
    /\ tick'.state = "PROLONGED_SEATED"
    /\ (tick'.enabled /\ prev_state # "PROLONGED_SEATED") => tick'.notified

\* sooner or later a tick reports PROLONGED_SEATED, with a notification when
\* notifications are enabled, unless run_backend has ended
SittingReported ==
    /\ <>(tick.state = "PROLONGED_SEATED" \/ ~running)
    /\ config.notifications_enabled => <>(tick.notified \/ ~running)

----------------------------------------------------------------------------
(* The engine under update_config.                                         *)

\* ActivityEngine.update_config: the configuration is replaced, nothing else
UpdateConfig ==
    /\ \E c \in {TestConfig, DefaultConfig} : c # config /\ config' = c
    /\ Forget
    /\ UNCHANGED <<now, records, activity_window, baseline_activity, seated_started_at,
                   visual_probe_requested_at, visual_probe_triggered_at,
                   last_issue_at, marked>>
    /\ UNCHANGED <<loopVars, extVars>>

NextHotSwap ==
    \/ Publish
    \/ Advance
    \/ ComputeSnapshot
    \/ UpdateConfig

SpecHotSwap == Init /\ [][NextHotSwap]_vars

\* what an engine constructed with the current configuration returns on the
\* timers, the buffer and the clock of this engine
AsConstructed ==
    Compute(records, now, config, ActivityWindow(config), BaselineActivity(config),
            seated_started_at, visual_probe_requested_at, visual_probe_triggered_at)

\* C37: update_config(c) leaves the seated anchor and both probe timestamps
\* unchanged, and every later compute_snapshot returns the state, metrics and
\* score, and leaves the timers, of an engine constructed with c on the same
\* timers, buffer and clock, the trailing activity window of
\* min(short_break_minutes, 5) minutes taken from c.
HotSwapRederivesEverything ==
    /\ [][UpdateConfig => UNCHANGED <<seated_started_at, visual_probe_requested_at,
                                      visual_probe_triggered_at>>]_vars
    /\ [][fresh' => /\ snap' = AsConstructed.snap
                    /\ seated_started_at' = AsConstructed.anchor
                    /\ visual_probe_requested_at' = AsConstructed.req
                    /\ visual_probe_triggered_at' = AsConstructed.trig]_vars

----------------------------------------------------------------------------
(* The engine over what the vision adapters can publish: the camera        *)
(* adapter reports confidence 0 and "no_pose" for an empty picture and     *)
(* "untracked" when the estimator finds no person; the simulated adapter   *)
(* draws posture_score from max(0.2, gauss(0.8, 0.1)), which has no upper  *)
(* limit.                                                                  *)

SampleInstants == {0, 2, 62}

\* the records the producers may publish at instant ts
Samples(ts) ==
    {InputRecord(ts, 30), WindowRecord(ts),
     VisionRecord(ts, 80, 120, "upright", 100),
     VisionRecord(ts, 20, 40, "slouch", 0),
     VisionRecord(ts, 20, 40, "untracked", 0),
     VisionRecord(ts, 0, 0, "no_pose", 0)}

\* AdapterBase.publish: a producer appends a record stamped with the clock
PublishSample ==
    /\ \E r \in Samples(now) : records' = BufferAppend(records, r)
    /\ Forget
    /\ UNCHANGED <<now, config, activity_window, baseline_activity, seated_started_at,
                   visual_probe_requested_at, visual_probe_triggered_at,
                   last_issue_at, marked>>
    /\ UNCHANGED <<loopVars, extVars>>

\* time passes
AdvanceSample ==
    /\ \E t \in SampleInstants : t > now /\ now' = t
    /\ Forget
    /\ UNCHANGED <<records, config, activity_window, baseline_activity,
                   seated_started_at, visual_probe_requested_at,
                   visual_probe_triggered_at, last_issue_at, marked>>
    /\ UNCHANGED <<loopVars, extVars>>

NextVision ==
    \/ PublishSample
    \/ AdvanceSample
    \/ ComputeSnapshot

SpecVision == InitMalformed /\ [][NextVision]_vars

\* C25: the score of every snapshot the engine returns lies between 0 and 1,
\* whatever posture_score and presence_confidence the records carry.
ScoreWithinUnitRange == fresh => (0 <= snap.score /\ snap.score <= ScoreScale)

\* C29: when the newest record that carries presence_confidence is below the
\* presence threshold, whatever its confidence and posture_state, and no record
\* of the activity window has positive keyboard/mouse volume, the snapshot
\* reports at least break_reset_minutes of break and the state SHORT_BREAK.
AbsentPersonForcesBreak ==
    (/\ fresh
     /\ LatestPresence(records) # None
     /\ Val(LatestPresence(records)).confidence < config.vision_presence_threshold
     /\ ~HasRecentKeyboardMouse(records, now, activity_window))
    => (snap.break_seconds >= BreakReset /\ snap.state = "SHORT_BREAK")

----------------------------------------------------------------------------
(* SignalBuffer under concurrent use.  Producers run publish() (stamp the  *)
(* record, then append under the lock); the engine's thread runs           *)
(* snapshot() and clear().  A with-block is two steps: the lock is taken,  *)
(* then the body runs and the lock is released.  A record carries the      *)
(* producer and the producer's count, so that appends can be told apart.   *)

\* the number of records a producer publishes in a run
MaxPublishes == 2

\* what the buffer actions leave alone
bufferFrame == <<config, activity_window, baseline_activity, seated_started_at,
                 visual_probe_requested_at, visual_probe_triggered_at, snap,
                 engineObs, loopVars, controller, daily, requests, monitor, shared>>

\* the records of producer p in a sequence
RecordsOf(p, seq) == SelectSeq(seq, LAMBDA r : r.producer = p)

\* InputAdapter.publish, line 25: the record is stamped before the append
Stamped(p, ts, k) ==
    [producer |-> p, seq |-> k] @@
    (IF p = "input" THEN InputRecord(ts, 10) ELSE VisionRecord(ts, 80, 100, "upright", 100))

\* mutant: the lock does not exclude
CanAcquire_Always(l) == TRUE

\* threading.Lock.acquire: blocks while another thread holds the lock
CanAcquire(l) == l = None

\* mutant: the list handed out is the deque itself
SnapshotResult_Alias(buf) == [alias |-> TRUE, items |-> <<>>]

\* snapshot, line 44: list(self._records) is a new list
SnapshotResult(buf) == [alias |-> FALSE, items |-> buf]

\* what the holder of a returned list sees in it when the deque holds buf
ContentsIn(ret, buf) == IF ret.alias THEN buf ELSE ret.items

\* what the holder of a returned list sees in it now
Contents(ret) == ContentsIn(ret, records)

\* publish, line 25: a producer builds its next record
Stamp(p) ==
    /\ threads[p].pc = "idle"
    /\ Len(RecordsOf(p, appended)) < MaxPublishes
    /\ threads' = [threads EXCEPT ![p] =
                     [pc |-> "stamped",
                      item |-> Some(Stamped(p, now, Len(RecordsOf(p, appended)) + 1))]]
    /\ UNCHANGED <<now, records, error, appended, lock, returned, bufferFrame>>

\* append, line 30: with self._lock
AppendAcquire(p) ==
    /\ threads[p].pc = "stamped"
    /\ CanAcquire(lock)
    /\ lock' = Some(p)
    /\ threads' = [threads EXCEPT ![p].pc = "append_locked"]
    /\ UNCHANGED <<now, records, error, appended, returned, bufferFrame>>

\* append, line 31: self._records.append(record), and the lock is released
AppendBody(p) ==
    /\ threads[p].pc = "append_locked"
    /\ records' = BufferAppend(records, Val(threads[p].item))
    /\ appended' = Append(appended, Val(threads[p].item))
    /\ lock' = None
    /\ threads' = [threads EXCEPT ![p] = IdleThread]
    /\ UNCHANGED <<now, error, returned, bufferFrame>>

\* snapshot, line 43: with self._lock; the copy starts from the deque as it is
SnapshotAcquire ==
    /\ threads[EngineThread].pc \in {"idle", "iterating"}
    /\ CanAcquire(lock)
    /\ lock' = Some(EngineThread)
    /\ threads' = [threads EXCEPT ![EngineThread] =
                     [pc |-> "snapshot_locked", item |-> Some(records)]]
    /\ error' = None
    /\ UNCHANGED <<now, records, appended, returned, bufferFrame>>

\* snapshot, line 44: the copy ends and is returned; a deque that changed
\* while it was iterated raises RuntimeError
SnapshotReturn ==
    /\ threads[EngineThread].pc = "snapshot_locked"
    /\ IF records = Val(threads[EngineThread].item)
       THEN /\ returned' = Some(SnapshotResult(records))
            /\ error' = None
       ELSE /\ returned' = None
            /\ error' = Some("RuntimeError")
    /\ lock' = None
    /\ threads' = [threads EXCEPT ![EngineThread] = [pc |-> "iterating", item |-> None]]
    /\ UNCHANGED <<now, records, appended, bufferFrame>>

\* run_backend, lines 331, 345, 399: buffer.clear(); SignalBuffer defines
\* append, iter_recent_metrics and snapshot only, so the call raises
Clear ==
    /\ threads[EngineThread].pc \in {"idle", "iterating"}
    /\ error' = Some("AttributeError")
    /\ threads' = [threads EXCEPT ![EngineThread] = [pc |-> "cleared", item |-> None]]
    /\ UNCHANGED <<now, records, appended, lock, returned, bufferFrame>>

\* the caller goes on after clear()
AfterClear ==
    /\ threads[EngineThread].pc = "cleared"
    /\ error' = None
    /\ threads' = [threads EXCEPT ![EngineThread] = IdleThread]
    /\ UNCHANGED <<now, records, appended, lock, returned, bufferFrame>>

\* compute_snapshot, line 86: the engine scans the list it was handed for
\* the last activity; the thread keeps what the scan returned
ScanReturned ==
    /\ threads[EngineThread].pc = "iterating"
    /\ threads[EngineThread].item = None
    /\ returned # None
    /\ threads' = [threads EXCEPT ![EngineThread].item =
                     Some(LastActivityTime(Contents(Val(returned)), config))]
    /\ UNCHANGED <<now, records, error, appended, lock, returned, bufferFrame>>

\* time passes between the steps of the threads
BufferAdvance ==
    /\ \E t \in Instants : t > now /\ t <= 2 /\ now' = t
    /\ UNCHANGED <<records, extVars, bufferFrame>>

NextBuffer ==
    \/ \E p \in Producers : Stamp(p)
    \/ \E p \in Producers : AppendAcquire(p)
    \/ \E p \in Producers : AppendBody(p)
    \/ SnapshotAcquire
    \/ SnapshotReturn
    \/ Clear
    \/ AfterClear
    \/ ScanReturned
    \/ BufferAdvance

SpecBuffer == InitMalformed /\ [][NextBuffer]_vars

\* the last n elements of a sequence
LastN(seq, n) == IF Len(seq) <= n THEN seq ELSE SubSeq(seq, Len(seq) - n + 1, Len(seq))

\* C15: after any sequence of appends the buffer holds at most its capacity
\* of records, and they are the most recently appended ones in append
\* order: an append to a full buffer drops the oldest record only.
BufferCapacity ==
    /\ Len(records) <= MaxLen
    /\ records = LastN(appended, MaxLen)

\* C15 witness: more records were appended than the buffer holds
EvictedOldest == Len(appended) > MaxLen /\ Len(records) = MaxLen

\* C16: after clear() the buffer holds no records and no error was raised.
ClearEmpties ==
    threads[EngineThread].pc = "cleared" => (records = <<>> /\ error = None)

\* C17: snapshot() returns the retained records in append order as a list
\* of its own: a list already returned is not changed by later appends and
\* evictions, and the lock is free while the caller iterates the list.
SnapshotIsCopy ==
    /\ [][(SnapshotReturn /\ returned' # None) =>
            ContentsIn(Val(returned'), records') = records']_vars
    /\ [][(returned # None /\ returned' = returned) =>
            ContentsIn(Val(returned), records') = ContentsIn(Val(returned), records)]_vars
    /\ [](threads[EngineThread].pc = "iterating" => lock # Some(EngineThread))

\* C17 witness: the caller holds a list and the buffer has moved on
ListHeldWhileBufferMoves ==
    /\ threads[EngineThread].pc = "iterating"
    /\ returned # None
    /\ Val(returned).items # <<>>
    /\ Contents(Val(returned)) # records
    /\ \E p \in Producers : lock = Some(p)

\* the buffer content after the first n appends
ContentAfter(n) == LastN(SubSeq(appended, 1, n), MaxLen)

\* the records of producer p carry rising counts
InOwnOrder(p, seq) ==
    \A i \in 1..(Len(RecordsOf(p, seq)) - 1) :
        RecordsOf(p, seq)[i].seq < RecordsOf(p, seq)[i + 1].seq

\* C18: with several producers appending while snapshots are taken, no
\* append is lost or duplicated, a snapshot is the buffer content after
\* some whole number of appends and is never broken by an append, and the
\* records of one producer are in the producer's own order.
ConcurrentAppends ==
    /\ \A p \in Producers :
          \A i \in 1..Len(RecordsOf(p, appended)) : RecordsOf(p, appended)[i].seq = i
    /\ error # Some("RuntimeError")
    /\ returned # None =>
          /\ \E n \in 0..Len(appended) : Contents(Val(returned)) = ContentAfter(n)
          /\ \A p \in Producers : InOwnOrder(p, Contents(Val(returned)))

\* C18 witness: a full snapshot was returned while a producer stood at the lock
SnapshotAmongProducers ==
    /\ returned # None
    /\ Len(Val(returned).items) = MaxLen
    /\ Len(appended) > MaxLen
    /\ \E p \in Producers : threads[p].pc = "stamped"
    /\ \E p \in Producers : Len(RecordsOf(p, appended)) = MaxPublishes

\* C30: the last-activity instant the engine finds in a returned list is the
\* greatest timestamp among the qualifying records, also when racing producers
\* left the records out of timestamp order.
LastActivityByTimestamp ==
    (/\ threads[EngineThread].pc = "iterating"
     /\ threads[EngineThread].item # None
     /\ returned # None)
    => LET recs == Contents(Val(returned))
           found == {i \in 1..Len(recs) : QualifiesAsActivity(recs[i], config)}
       IN  found # {} =>
              \E i \in found :
                 /\ \A j \in found : recs[j].timestamp <= recs[i].timestamp
                 /\ Val(threads[EngineThread].item) = Some(recs[i].timestamp)

----------------------------------------------------------------------------
(* VisionController, as run_backend builds and calls it: update() at the   *)
(* end of an awake tick, aclose() in the finally block.  A probe task runs *)
(* for as long as the adapter takes.                                       *)

\* the number of probe tasks a run creates
MaxLaunches == 2

\* time.time() when the run starts, in seconds
Epoch == 1000

\* the instants at which the controller is called, in seconds after the start
ControllerInstants == {0, 2, 119, 120, 240}

\* run_backend, line 273: ambiguous_seconds=60.0
AmbiguousSeconds == 60

\* run_backend, line 277: cooldown_seconds=120.0
ControllerCooldown == 120

\* run_backend, line 274: break_reset_seconds=config.break_reset_minutes * 60.0
BreakResetSeconds(cfg) == cfg.break_reset_minutes * SecondsPerMinute

\* run_backend, line 278: confidence_hold=config.vision_presence_threshold
ConfidenceHold(cfg) == cfg.vision_presence_threshold

\* the arguments update() is called with: break_minutes * 60, the presence
\* confidence in percent, the posture state
BreakSecondsGiven == {30, 60, 179, 180}

Confidences == {20, 60}

PostureStates == {"untracked", "upright"}

\* asyncio.Task.done(): the task returned, or was cancelled
Done(status) == status \in {"done", "failed", "cancelled"}

\* update, line 61: self._task is not None and not self._task.done()
TaskInFlight(c) == c.task # None /\ ~Done(c.tasks[Val(c.task)].status)

\* mutant: the cooldown is not looked at
CooledDown_Always(c, t) == TRUE

\* update, line 58: not (now - self._last_probe_at) < self._cooldown_seconds
CooledDown(c, t) == ~(t - c.last_probe_at < ControllerCooldown)

\* update, lines 46-62: the early returns, in the order of the code
Launches(c, call, cfg) ==
    /\ c.adapter
    /\ ~(call.break_seconds < AmbiguousSeconds)
    /\ ~(call.break_seconds >= BreakResetSeconds(cfg))
    /\ ~(call.presence_confidence >= ConfidenceHold(cfg) /\ call.posture_state # "untracked")
    /\ CooledDown(c, call.now)
    /\ ~TaskInFlight(c)

\* update, lines 64-65: the launch is stamped and the task created
Update(c, call, cfg) ==
    IF Launches(c, call, cfg)
    THEN [c EXCEPT !.last_probe_at = call.now,
                   !.tasks = Append(@, [status |-> "running", launched_at |-> call.now]),
                   !.task = Some(Len(c.tasks) + 1),
                   !.call = Some(call)]
    ELSE [c EXCEPT !.call = Some(call)]

\* mutant: aclose() does not wait for the task
Unwound_Always(status) == TRUE

\* aclose, line 81: await self._task resumes when the task is done
Unwound(status) == Done(status)

\* aclose, line 81: what await self._task raises in the caller
AwaitOutcome(status) == IF status = "cancelled" THEN Some("CancelledError") ELSE None

\* aclose, line 80: contextlib.suppress(asyncio.CancelledError)
Suppress(exc) == IF exc = Some("CancelledError") THEN None ELSE exc

\* what the controller actions leave alone
controllerFrame == <<records, config, activity_window, baseline_activity,
                     seated_started_at, visual_probe_requested_at,
                     visual_probe_triggered_at, snap, engineObs, loopVars,
                     appended, lock, threads, returned, daily, requests, monitor, shared>>

\* run_backend, lines 496-505: the tick calls update()
ControllerUpdate ==
    /\ controller.caller = "looping"
    /\ Len(controller.tasks) < MaxLaunches
    /\ \E bs \in BreakSecondsGiven, conf \in Confidences, ps \in PostureStates :
          controller' = Update(controller,
                               [break_seconds |-> bs, presence_confidence |-> conf,
                                posture_state |-> ps, now |-> Epoch + now],
                               config)
    /\ UNCHANGED <<now, error, controllerFrame>>

\* _run_probe, lines 69-73: the adapter's probe returns
ProbeTaskReturns ==
    /\ \E i \in 1..Len(controller.tasks) :
          /\ controller.tasks[i].status = "running"
          /\ controller' = [controller EXCEPT !.tasks[i].status = "done", !.call = None]
    /\ UNCHANGED <<now, error, controllerFrame>>

\* _run_probe, lines 74-75: the adapter's probe raises, the task logs it and returns
ProbeTaskAbsorbs ==
    /\ \E i \in 1..Len(controller.tasks) :
          /\ controller.tasks[i].status = "running"
          /\ controller' = [controller EXCEPT !.tasks[i].status = "failed", !.call = None]
    /\ UNCHANGED <<now, error, controllerFrame>>

\* aclose, lines 78-79: a task that is not done is cancelled
AcloseCancels ==
    /\ controller.caller = "looping"
    /\ TaskInFlight(controller)
    /\ controller' = [controller EXCEPT !.tasks[Val(controller.task)].status = "cancelling",
                                        !.caller = "awaiting", !.call = None]
    /\ UNCHANGED <<now, error, controllerFrame>>

\* aclose, line 78: no task, or a task that is done: nothing to do
AcloseSkips ==
    /\ controller.caller = "looping"
    /\ ~TaskInFlight(controller)
    /\ controller' = [controller EXCEPT !.caller = "closed", !.call = None]
    /\ error' = None
    /\ UNCHANGED <<now, controllerFrame>>

\* _run_probe: CancelledError is no Exception, the task unwinds with it
TaskUnwinds ==
    /\ \E i \in 1..Len(controller.tasks) :
          /\ controller.tasks[i].status = "cancelling"
          /\ controller' = [controller EXCEPT !.tasks[i].status = "cancelled", !.call = None]
    /\ UNCHANGED <<now, error, controllerFrame>>

\* aclose, lines 80-82: the await resumes, self._task = None
AcloseReturns ==
    /\ controller.caller = "awaiting"
    /\ Unwound(controller.tasks[Val(controller.task)].status)
    /\ error' = Suppress(AwaitOutcome(controller.tasks[Val(controller.task)].status))
    /\ controller' = [controller EXCEPT !.task = None, !.caller = "closed", !.call = None]
    /\ UNCHANGED <<now, controllerFrame>>

\* time passes between the calls and while a task runs
ControllerAdvance ==
    /\ \E t \in ControllerInstants : t > now /\ now' = t
    /\ controller' = [controller EXCEPT !.call = None]
    /\ UNCHANGED <<error, controllerFrame>>

NextController ==
    \/ ControllerUpdate
    \/ ProbeTaskReturns
    \/ ProbeTaskAbsorbs
    \/ AcloseCancels
    \/ AcloseSkips
    \/ TaskUnwinds
    \/ AcloseReturns
    \/ ControllerAdvance

\* run_backend, lines 264-279: the controller after construction, with the
\* default configuration; VisionController accepts adapter=None
InitController ==
    /\ now = 0
    /\ records = <<>>
    /\ config = DefaultConfig
    /\ activity_window = ActivityWindow(config)
    /\ baseline_activity = BaselineActivity(config)
    /\ seated_started_at = None
    /\ visual_probe_requested_at = None
    /\ visual_probe_triggered_at = None
    /\ snap = NoSnapshot
    /\ prev_snap = NoSnapshot
    /\ fresh = FALSE
    /\ repeat = FALSE
    /\ last_issue_at = None
    /\ issue_gap = None
    /\ marked = FALSE
    /\ LoopIdle
    /\ error = None
    /\ appended = <<>>
    /\ lock = None
    /\ threads = [t \in Producers \cup {EngineThread} |-> IdleThread]
    /\ returned = None
    /\ \E a \in BOOLEAN : controller = VisionController(a)
    /\ daily = FirstDay
    /\ requests = NoRequests
    /\ monitor = MacOSInputMonitor
    /\ shared = SharedState

SpecController == InitController /\ [][NextController]_vars

\* the probe tasks that are not done
InFlight(c) == {i \in 1..Len(c.tasks) : ~Done(c.tasks[i].status)}

\* C19: update() launches a probe task only with an adapter, with the break
\* inside [ambiguous_seconds, break_reset_seconds), with the confidence
\* below the hold threshold or the posture untracked, with cooldown_seconds
\* passed since the last launch and with no probe task running; so at most
\* one probe task is in flight and launches are cooldown_seconds apart.
ControllerRateLimit ==
    /\ [][Len(controller'.tasks) > Len(controller.tasks) =>
            /\ controller.adapter
            /\ Val(controller'.call).break_seconds >= 60
            /\ Val(controller'.call).break_seconds < 180
            /\ \/ Val(controller'.call).presence_confidence < 60
               \/ Val(controller'.call).posture_state = "untracked"
            /\ \A i \in 1..Len(controller.tasks) :
                  Val(controller'.call).now - controller.tasks[i].launched_at >= 120
            /\ InFlight(controller) = {}]_vars
    /\ [](Cardinality(InFlight(controller)) <= 1)
    /\ [](\A i, j \in 1..Len(controller.tasks) :
             i < j => controller.tasks[j].launched_at - controller.tasks[i].launched_at >= 120)

\* C19 witness: the second launch came exactly one cooldown after the first
LaunchedAfterCooldown ==
    /\ Len(controller.tasks) = 2
    /\ controller.tasks[2].launched_at - controller.tasks[1].launched_at = ControllerCooldown
    /\ controller.tasks[2].status = "running"

\* C20: aclose() cancels a running probe task and returns only when the
\* task has unwound: no probe task is running when it has returned, and
\* the cancellation is not raised to the caller.
ControllerTeardown ==
    controller.caller = "closed" => (InFlight(controller) = {} /\ error = None)

\* C20 witness: aclose() has returned after cancelling a task
ClosedAfterCancel ==
    /\ controller.caller = "closed"
    /\ \E i \in 1..Len(controller.tasks) : controller.tasks[i].status = "cancelled"

----------------------------------------------------------------------------
(* MacOSInputMonitor: the event-tap thread calls _handle_event for every   *)
(* event, the publish loop calls _drain_metrics once per polling interval. *)
(* Both work on the three counters inside "with self._lock"; the steps     *)
(* below are the calls, the taking and leaving of the lock and the reads   *)
(* and writes in between.                                                  *)

\* the events passed to _handle_event in a run
MaxEvents == 3

\* the calls of _drain_metrics in a run
MaxDrains == 2

monitorFrame ==
    <<engineVars, loopVars, error, appended, lock, threads, returned, controller,
      daily, requests, shared>>

\* mutant: the counters are used without the lock
MonitorLockFree_Always(m) == TRUE

\* threading.Lock: "with self._lock" is entered when no thread holds it
MonitorLockFree(m) == m.lock = None

\* _drain_metrics, lines 147-154: the result; float() of a count is that count
Metrics(keyboard, mouse, scroll) ==
    [keyboard_events |-> keyboard, mouse_events |-> mouse, scroll_events |-> scroll,
     total_events |-> keyboard + mouse + scroll,
     keyboard_mouse_activity |-> keyboard + mouse + scroll]

EventsHandled == monitor.handled["keyboard"] + monitor.handled["mouse"] + monitor.handled["scroll"]

\* _event_callback, line 91: the tap passes an event to _handle_event
HandleEventCalled ==
    /\ monitor.tap.pc = "idle"
    /\ EventsHandled < MaxEvents
    /\ \E kind \in EventKinds :
          monitor' = [monitor EXCEPT !.tap = [Outside EXCEPT !.pc = "waiting", !.kind = kind],
                                     !.handled[kind] = @ + 1]
    /\ UNCHANGED monitorFrame

\* _handle_event, line 130
HandleEventAcquires ==
    /\ monitor.tap.pc = "waiting"
    /\ MonitorLockFree(monitor)
    /\ monitor' = [monitor EXCEPT !.tap.pc = "locked", !.lock = Some("tap")]
    /\ UNCHANGED monitorFrame

\* _handle_event, lines 131-136: the counter of the event's kind grows by one
HandleEventCounts ==
    /\ monitor.tap.pc = "locked"
    /\ monitor' = [monitor EXCEPT
                      !.tap.pc = "counted",
                      !.keyboard_events = IF monitor.tap.kind = "keyboard" THEN @ + 1 ELSE @,
                      !.mouse_events = IF monitor.tap.kind = "mouse" THEN @ + 1 ELSE @,
                      !.scroll_events = IF monitor.tap.kind = "scroll" THEN @ + 1 ELSE @]
    /\ UNCHANGED monitorFrame

\* _handle_event leaves the with-block and returns
HandleEventReturns ==
    /\ monitor.tap.pc = "counted"
    /\ monitor' = [monitor EXCEPT !.tap = Outside, !.lock = None]
    /\ UNCHANGED monitorFrame

\* _publish_loop, line 62: metrics = self._drain_metrics()
DrainCalled ==
    /\ monitor.drain.pc = "idle"
    /\ Len(monitor.results) < MaxDrains
    /\ monitor' = [monitor EXCEPT !.drain.pc = "waiting"]
    /\ UNCHANGED monitorFrame

\* _drain_metrics, line 139
DrainAcquires ==
    /\ monitor.drain.pc = "waiting"
    /\ MonitorLockFree(monitor)
    /\ monitor' = [monitor EXCEPT !.drain.pc = "locked", !.lock = Some("drain")]
    /\ UNCHANGED monitorFrame

\* _drain_metrics, lines 140-142: the counters are read
DrainReads ==
    /\ monitor.drain.pc = "locked"
    /\ monitor' = [monitor EXCEPT !.drain = [pc |-> "read", kind |-> "none",
                                             keyboard |-> monitor.keyboard_events,
                                             mouse |-> monitor.mouse_events,
                                             scroll |-> monitor.scroll_events]]
    /\ UNCHANGED monitorFrame

\* _drain_metrics, lines 143-145: the counters are set to 0
DrainZeroes ==
    /\ monitor.drain.pc = "read"
    /\ monitor' = [monitor EXCEPT !.drain.pc = "zeroed", !.keyboard_events = 0,
                                  !.mouse_events = 0, !.scroll_events = 0]
    /\ UNCHANGED monitorFrame

\* _drain_metrics leaves the with-block
DrainReleases ==
    /\ monitor.drain.pc = "zeroed"
    /\ monitor' = [monitor EXCEPT !.drain.pc = "unlocked", !.lock = None]
    /\ UNCHANGED monitorFrame

\* _drain_metrics, lines 147-154: the result is built and returned
DrainReturns ==
    /\ monitor.drain.pc = "unlocked"
    /\ monitor' = [monitor EXCEPT
                      !.drain = Outside,
                      !.results = Append(@, Metrics(monitor.drain.keyboard, monitor.drain.mouse,
                                                    monitor.drain.scroll))]
    /\ UNCHANGED monitorFrame

NextMonitor ==
    \/ HandleEventCalled
    \/ HandleEventAcquires
    \/ HandleEventCounts
    \/ HandleEventReturns
    \/ DrainCalled
    \/ DrainAcquires
    \/ DrainReads
    \/ DrainZeroes
    \/ DrainReleases
    \/ DrainReturns

SpecMonitor == InitMalformed /\ [][NextMonitor]_vars

\* the events of a kind that the results so far report
RECURSIVE Reported(_, _)
Reported(results, key) ==
    IF results = <<>> THEN 0 ELSE results[1][key] + Reported(Tail(results), key)

\* the events of a kind that are on their way to a result: in _handle_event
\* before the increment, in the counter, or read by a drain that zeroed it
Pending(kind, counter, local) ==
    (IF monitor.tap.pc \in {"waiting", "locked"} /\ monitor.tap.kind = kind THEN 1 ELSE 0)
    + counter
    + (IF monitor.drain.pc \in {"zeroed", "unlocked"} THEN local ELSE 0)

\* C26: every event passed to _handle_event is counted by its kind in exactly
\* one result of _drain_metrics or is still on its way to the next one; in
\* each result total_events and keyboard_mouse_activity are the sum of the
\* three counts; the counters are zero when a drain leaves its with-block.
InputEventAccounting ==
    /\ monitor.handled["keyboard"] = Reported(monitor.results, "keyboard_events")
          + Pending("keyboard", monitor.keyboard_events, monitor.drain.keyboard)
    /\ monitor.handled["mouse"] = Reported(monitor.results, "mouse_events")
          + Pending("mouse", monitor.mouse_events, monitor.drain.mouse)
    /\ monitor.handled["scroll"] = Reported(monitor.results, "scroll_events")
          + Pending("scroll", monitor.scroll_events, monitor.drain.scroll)
    /\ \A i \in 1..Len(monitor.results) :
          LET r == monitor.results[i]
          IN  /\ r.total_events = r.keyboard_events + r.mouse_events + r.scroll_events
              /\ r.keyboard_mouse_activity = r.total_events
    /\ monitor.drain.pc = "zeroed" =>
          monitor.keyboard_events + monitor.mouse_events + monitor.scroll_events = 0

\* an event arrives while a drain that read other events holds the lock
EventDuringDrain ==
    /\ monitor.drain.pc = "zeroed"
    /\ monitor.drain.keyboard + monitor.drain.mouse + monitor.drain.scroll > 0
    /\ monitor.tap.pc = "waiting"
    /\ Len(monitor.results) = 1

----------------------------------------------------------------------------
(* The notification slot of SharedState.  The loop thread calls set at the *)
(* end of a tick, with a notification or with None; the GUI thread calls   *)
(* pop_notification from its timer.  Both bodies run under                 *)
(* "with self._lock"; the statements inside are steps of their own.  A     *)
(* notification is the number of its publication.                          *)

\* notifications published in a run
MaxNotifications == 2

\* pop_notification calls in a run
MaxPops == 3

notifyFrame ==
    <<engineVars, loopVars, error, appended, lock, threads, returned, controller,
      daily, requests, monitor>>

\* mutant: the slot is used without the lock
SharedLockFree_Always(s) == TRUE

\* threading.Lock: "with self._lock" is entered when no thread holds it
SharedLockFree(s) == s.lock = None

\* SharedState.set, line 102: the tick enters the with-block, holding its
\* notification or None
SetAcquires ==
    /\ shared.loop.pc = "idle"
    /\ SharedLockFree(shared)
    /\ \E notify \in BOOLEAN :
          /\ notify => shared.published < MaxNotifications
          /\ shared' = [shared EXCEPT
                 !.lock = Some("loop"),
                 !.published = IF notify THEN @ + 1 ELSE @,
                 !.loop = [pc |-> "locked",
                           message |-> IF notify THEN Some(shared.published + 1) ELSE None]]
    /\ UNCHANGED notifyFrame

\* SharedState.set, lines 103-106: the slot is written if the tick has a
\* notification, and the lock is released
SetWrites ==
    /\ shared.loop.pc = "locked"
    /\ shared' = [shared EXCEPT
           !.notification = IF shared.loop.message # None THEN shared.loop.message ELSE @,
           !.kept = shared.loop.message = None /\ shared.notification # None,
           !.lock = None,
           !.loop = [pc |-> "idle", message |-> None]]
    /\ UNCHANGED notifyFrame

\* SharedState.pop_notification, line 132: the GUI enters the with-block
PopAcquires ==
    /\ shared.gui.pc = "idle"
    /\ Len(shared.results) < MaxPops
    /\ SharedLockFree(shared)
    /\ shared' = [shared EXCEPT !.lock = Some("gui"), !.gui.pc = "locked"]
    /\ UNCHANGED notifyFrame

\* line 133: message = self.notification
PopReads ==
    /\ shared.gui.pc = "locked"
    /\ shared' = [shared EXCEPT !.gui = [pc |-> "read", message |-> shared.notification]]
    /\ UNCHANGED notifyFrame

\* lines 134-135: self.notification = None, the lock is released and the
\* message returned
PopClears ==
    /\ shared.gui.pc = "read"
    /\ shared' = [shared EXCEPT
           !.notification = None,
           !.kept = FALSE,
           !.lock = None,
           !.results = Append(@, shared.gui.message),
           !.gui = [pc |-> "idle", message |-> None]]
    /\ UNCHANGED notifyFrame

NextNotify ==
    \/ SetAcquires
    \/ SetWrites
    \/ PopAcquires
    \/ PopReads
    \/ PopClears

\* main(), line 32: shared_state = SharedState(), before the two threads start
InitNotify == Init /\ config = DefaultConfig /\ seated_started_at = None

SpecNotify == InitNotify /\ [][NextNotify]_vars

\* the notifications pop_notification has returned
Delivered ==
    {Val(shared.results[i]) : i \in {j \in 1..Len(shared.results) : shared.results[j] # None}}

\* the notification is in the slot, or read by a pop that has not returned yet
InHand(n) == shared.notification = Some(n) \/ shared.gui.message = Some(n)

\* C39: a published notification stays in the slot across later calls of set
\* that carry none, until pop_notification takes it; pop_notification
\* returns a notification to one call only and None until the next one is
\* published, however the GUI thread and the loop interleave.
NotificationHandOff ==
    /\ \A i, j \in 1..Len(shared.results) :
          (i < j /\ shared.results[i] # None /\ shared.results[j] # None)
              => Val(shared.results[i]) < Val(shared.results[j])
    /\ Delivered \subseteq 1..shared.published
    /\ (shared.published > 0 /\ shared.loop.message = None) =>
          (shared.published \in Delivered \/ InHand(shared.published))
    /\ \A n \in 1..shared.published :
          (shared.notification = Some(n) \/ shared.loop.message = Some(n)) => n \notin Delivered

\* C39 witness: a pop has read the notification that a later tick without a
\* notification left in the slot, after an earlier pop returned None.
ReadAfterQuietTick ==
    /\ shared.kept
    /\ shared.gui.pc = "read"
    /\ shared.gui.message = Some(1)
    /\ shared.results = <<None>>
====
